---- MODULE Spec2Model ----
(***************************************************************************)
(* Evolutionary optimisation engine of the QA system.                      *)
(*                                                                         *)
(* The program computes with JavaScript numbers.  A number the code        *)
(* computes is a double here (sign, 53-bit significand, exponent) and the  *)
(* operations on it round as IEEE 754 does.  A number the code has rounded *)
(* to two decimals is an integer in hundredths: a rule score of 0.55 as    *)
(* the DECIMAL(3,2) column stores it is 55, a win rate of 0.8 that         *)
(* Math.round(x * 100) / 100 has produced is 80.                           *)
(***************************************************************************)
EXTENDS Integers, Sequences, FiniteSets

VARIABLES
    rules,          \* qa_interpretation_rules: rule id -> row
    applications,   \* qa_interpretation_applications rows, oldest first
    qaFeedback,     \* qa_feedback_logs: message -> the ratings of the rows given for it
    eventLog,       \* per rule: the score writes updateRuleScores has done
    procs,          \* feedback requests in flight, each at its await
    chat,           \* the chat request in flight and the answers given so far
    calls,          \* feedback requests and updateRuleScores calls made so far
    selMargins,     \* selectWinner fixture: the two margins compared
    selResults,     \* selectWinner fixture: the evaluation results of the last job
    selWinners,     \* selectWinner's answer for the last job under each margin
    adoptCounts,    \* jobs of the fixture that adopted a winner, per margin
    selJobs,        \* jobs of the fixture selected so far
    ev,             \* one candidate evaluation in progress (either evaluator)
    config,         \* EvolutionWorkflow.config
    feedbackLogs,   \* qaev_feedback_logs: row id -> row, ids in creation order
    documents,      \* qaev_documents: document id -> row
    history,        \* qaev_evolution_history rows, oldest first
    wf,             \* evolution requests: request -> its position, job and answer
    requests,       \* evolution requests made so far
    ruleRows,       \* qa_interpretation_rules rows the two rule workflows inserted
    selfEvo,        \* one call of evaluateAndAdoptRules: its candidates so far
    rw,             \* rule-evolution requests: request -> its position, job and answer
    lookup,         \* the last call of getApplicableRules and what it returned
    gen,            \* one call of MutationEngine.generateMutations, prompt by prompt
    weak            \* the weakness analysis of one self-evolution job

ledgerVars == <<rules, applications, qaFeedback, eventLog, procs, chat, calls>>
selVars == <<selMargins, selResults, selWinners, adoptCounts, selJobs>>
evalVars == <<ev>>
orchVars == <<config, feedbackLogs, documents, history, wf, requests>>
ruleVars == <<ruleRows, selfEvo, rw, lookup, gen, weak>>

vars == <<rules, applications, qaFeedback, eventLog, procs, chat, calls,
          selMargins, selResults, selWinners, adoptCounts, selJobs, ev,
          config, feedbackLogs, documents, history, wf, requests,
          ruleRows, selfEvo, rw, lookup, gen, weak>>

----------------------------------------------------------------------------
(* Arithmetic helpers *)

Min(a, b) == IF a <= b THEN a ELSE b
Max(a, b) == IF a >= b THEN a ELSE b

\* A wide natural number is <<hi, lo>>, hi * 2^29 + lo with lo < 2^29.
Limb == 2^29

WZero == <<0, 0>>
WOne == <<0, 1>>

WAdd(u, v) == <<u[1] + v[1] + (u[2] + v[2]) \div Limb, (u[2] + v[2]) % Limb>>

\* u - v for u >= v
WSub(u, v) ==
    IF u[2] >= v[2] THEN <<u[1] - v[1], u[2] - v[2]>>
    ELSE <<u[1] - v[1] - 1, u[2] + Limb - v[2]>>

WLess(u, v) == u[1] < v[1] \/ (u[1] = v[1] /\ u[2] < v[2])

WOdd(u) == u[2] % 2 = 1

\* u * 2^k, k < 29
WShiftLeftSmall(u, k) ==
    <<u[1] * 2^k + u[2] \div 2^(29 - k), (u[2] % 2^(29 - k)) * 2^k>>

\* u * 2^k, k < 58
WShiftLeft(u, k) ==
    IF k < 29 THEN WShiftLeftSmall(u, k)
    ELSE WShiftLeftSmall(<<u[1] * Limb + u[2], 0>>, k - 29)

\* u \div 2^k
WShiftRight(u, k) ==
    IF k < 29
    THEN <<u[1] \div 2^k, u[2] \div 2^k + (u[1] % 2^k) * 2^(29 - k)>>
    ELSE IF k < 2 * 29 THEN <<0, u[1] \div 2^(k - 29)>>
    ELSE WZero

\* Number of binary digits of a natural number below 2^31.
Bits(n) == Cardinality({i \in 0..30 : 2^i <= n})

WBits(u) == IF u[1] > 0 THEN 29 + Bits(u[1]) ELSE Bits(u[2])

\* u * k for a natural k < 2^7 and u < 2^53.
WTimes(u, k) ==
    WAdd(<<u[1] * k, (u[2] % 2^15) * k>>, WShiftLeftSmall(<<0, (u[2] \div 2^15) * k>>, 15))

\* A double is sign * m * 2^e with m = 0 or 2^52 <= m < 2^53.
DZero == [sign |-> 1, m |-> WZero, e |-> 0]

\* Round to nearest, ties to even: the double of sign * m * 2^e, where sticky
\* says that the exact value has further digits below m.
RoundToDouble(sign, m, e, sticky) ==
    IF m = WZero THEN DZero
    ELSE LET n == WBits(m)
         IN IF n <= 53
            THEN [sign |-> sign, m |-> WShiftLeft(m, 53 - n), e |-> e - (53 - n)]
            ELSE LET k == n - 53
                     q == WShiftRight(m, k)
                     low == WSub(m, WShiftLeft(q, k))
                     half == WShiftLeft(WOne, k - 1)
                     up == \/ WLess(half, low)
                           \/ (low = half /\ (sticky \/ WOdd(q)))
                     r == IF up THEN WAdd(q, WOne) ELSE q
                 IN IF WBits(r) = 54
                    THEN [sign |-> sign, m |-> WShiftRight(r, 1), e |-> e + k + 1]
                    ELSE [sign |-> sign, m |-> r, e |-> e + k]

\* An integer as a double.
DInt(n) == RoundToDouble(IF n < 0 THEN -1 ELSE 1, <<0, IF n < 0 THEN -n ELSE n>>, 0, FALSE)

DNeg(x) == IF x.m = WZero THEN x ELSE [x EXCEPT !.sign = -x.sign]

\* Long division of naturals: s is <<quotient, remainder, divisor>>.
DivisionStates == Seq(Seq(Nat))

\* The next binary digit of the quotient.
DivideStep ==
    [s \in DivisionStates |->
        LET q2 == WAdd(s[1], s[1])
            r2 == WAdd(s[2], s[2])
        IN IF WLess(r2, s[3]) THEN <<q2, r2, s[3]>>
           ELSE <<WAdd(q2, WOne), WSub(r2, s[3]), s[3]>>]

\* The next seven digits, and the next fifty-six.
DivideSeven ==
    [s \in DivisionStates |->
        DivideStep[DivideStep[DivideStep[DivideStep[DivideStep[DivideStep[DivideStep[s]]]]]]]]

Divide ==
    [s \in DivisionStates |->
        DivideSeven[DivideSeven[DivideSeven[DivideSeven[
            DivideSeven[DivideSeven[DivideSeven[DivideSeven[s]]]]]]]]]

\* num / den, den not zero.
DDiv(num, den) ==
    IF num.m = WZero THEN DZero
    ELSE LET start == IF WLess(num.m, den.m) THEN <<WZero, num.m, den.m>>
                      ELSE <<WOne, WSub(num.m, den.m), den.m>>
             result == Divide[start]
         IN RoundToDouble(num.sign * den.sign, result[1], num.e - den.e - 56,
                          result[2] # WZero)

\* The double nearest to the decimal number p / q.
DLit(p, q) == DDiv(DInt(p), DInt(q))

\* |f| < |g|
DMagLess(f, g) ==
    IF f.m = WZero THEN g.m # WZero
    ELSE IF g.m = WZero THEN FALSE
    ELSE f.e < g.e \/ (f.e = g.e /\ WLess(f.m, g.m))

DLess(x, y) ==
    IF x.sign = 1 /\ y.sign = 1 THEN DMagLess(x, y)
    ELSE IF x.sign = -1 /\ y.sign = -1 THEN DMagLess(y, x)
    ELSE x.sign = -1

DGeq(lhs, rhs) == ~DLess(lhs, rhs)

DMax(lhs, rhs) == IF DLess(lhs, rhs) THEN rhs ELSE lhs

\* m shifted right by k with the digits shifted out kept as a last odd digit.
ShiftRightSticky(m, k) ==
    IF k = 0 THEN m
    ELSE IF k >= 2 * 29 THEN WOne
    ELSE LET q == WShiftRight(m, k)
         IN IF WShiftLeft(q, k) = m \/ WOdd(q) THEN q ELSE WAdd(q, WOne)

\* x + y
DAdd(x, y) ==
    IF x.m = WZero THEN y
    ELSE IF y.m = WZero THEN x
    ELSE LET big == IF DMagLess(x, y) THEN y ELSE x
             small == IF DMagLess(x, y) THEN x ELSE y
             mb == WShiftLeft(big.m, 5)
             ms == ShiftRightSticky(WShiftLeft(small.m, 5), big.e - small.e)
         IN IF big.sign = small.sign
            THEN RoundToDouble(big.sign, WAdd(mb, ms), big.e - 5, FALSE)
            ELSE RoundToDouble(big.sign, WSub(mb, ms), big.e - 5, FALSE)

DSub(lhs, rhs) == DAdd(lhs, DNeg(rhs))

\* x * k for a natural k < 2^7.
DTimes(x, k) == RoundToDouble(x.sign, WTimes(x.m, k), x.e, FALSE)

\* Math.round for |x| < 2^30: the nearest integer, halves towards +infinity.
JSRound(x) ==
    IF x.m = WZero \/ -x.e > 54 THEN 0
    ELSE LET k == -x.e
             q == WShiftRight(x.m, k)
             low == WSub(x.m, WShiftLeft(q, k))
             half == WShiftLeft(WOne, k - 1)
             n == q[1] * Limb + q[2]
         IN IF x.sign = 1
            THEN (IF WLess(low, half) THEN n ELSE n + 1)
            ELSE (IF WLess(half, low) THEN -(n + 1) ELSE -n)

\* A double stored in a DECIMAL(3,2) column: the shortest decimal that reads
\* back as x, rounded to two places, halves away from zero; in hundredths.
Decimal2(x) ==
    LET a == [x EXCEPT !.sign = 1]
        k == JSRound(DTimes(a, 100))
        cands == {j \in {k - 1, k, k + 1} : j >= 0}
        n == CHOOSE j \in cands :
                 /\ DGeq(a, DLit(2 * j - 1, 200)) \/ j = 0
                 /\ DLess(a, DLit(2 * j + 1, 200))
    IN x.sign * n

\* The entry of a table of pairs <<key, value>> for a key.
Lookup(table, key) == (CHOOSE entry \in table : entry[1] = key)[2]

\* The number literals of the code with two decimals, as doubles: 0.6 is
\* Hundredth(60).
Hundredths == {<<h, DLit(h, 100)>> : h \in 0..100}
Hundredth(h) == Lookup(Hundredths, h)

\* The sum of a sequence of integers.
SumSeq(seq) ==
    LET Partial[i \in 0..Len(seq)] == IF i = 0 THEN 0 ELSE Partial[i - 1] + seq[i]
    IN Partial[Len(seq)]

----------------------------------------------------------------------------
(* Fitness ledger: InterpretationService and the routes that call it.  Every *)
(* store call is awaited, so a step is what one request does up to its next  *)
(* store call, and the steps of requests served at the same time interleave. *)

SCORE_INCREASE_ON_GOOD == 5
SCORE_DECREASE_ON_BAD == 10
MIN_SCORE == 0
MAX_SCORE == 100

Ratings == {"GOOD", "BAD"}
RuleIds == {"r1", "r2"}
MessageIds == {"m1", "m2"}
ProcIds == {"p1", "p2"}
NoRow == "none"

\* The assistant messages in the order the chat route inserts them, and the
\* requests in the order they are taken up.
MessageOrder == <<"m1", "m2">>
ProcOrder == <<"p1", "p2">>

\* Scores a rule that exists at start may have.
SeedScores == {3, 50, 95}

\* Most calls of updateRuleScores, and most feedback requests, of one
\* behaviour.
MaxCalls == 3
MaxFeedbacks == 2

\* Most rows recordApplication is called directly to insert.
MaxApplications == 2

\* Most chat requests of one behaviour.
MaxChats == 1

\* The rule lists an application row may hold.
RuleLists == {<<>>, <<"r1">>, <<"r2">>, <<"r1", "r2">>, <<"r2", "r1">>}

IdleProc == [pc |-> "idle", message |-> NoRow, rating |-> NoRow, existing |-> FALSE,
             application |-> 0, todo |-> <<>>, cur |-> 0]

NoRule == [exists |-> FALSE, score |-> 0, enabled |-> FALSE, origin |-> "none",
           document_id |-> "none"]

\* The row of a rule that was deleted; its id is never given to another rule.
DeletedRule == [NoRule EXCEPT !.origin = "deleted"]

\* The sources searchDocuments may find for a message: the documents of its
\* results, in their order.
ChatSources == {<<>>, <<"d1">>, <<"d2">>, <<"d1", "d2">>, <<"d2", "d1">>, <<"d1", "d1">>}

\* The session of the chat and its request in flight: the sources whose rules
\* the request has still to look up and appliedRules so far.  answered counts
\* the assistant messages inserted, deleted those of them that are deleted,
\* and session says that the row of the session is there.
IdleChat == [pc |-> "idle", sources |-> <<>>, rules |-> <<>>, answered |-> 0,
             deleted |-> 0, session |-> TRUE]

\* The chat request has returned.
ChatDone(c) == [c EXCEPT !.pc = "idle", !.sources = <<>>, !.rules = <<>>]

\* A bug a ledger could have: the reward and the penalty swapped.
NewScoreSwapped(currentScore, rating) ==
    IF rating = "GOOD"
    THEN Min(currentScore + SCORE_DECREASE_ON_BAD, MAX_SCORE)
    ELSE Max(currentScore - SCORE_INCREASE_ON_GOOD, MIN_SCORE)

\* A bug a ledger could have: the penalty taken as a tenth of the current score.
NewScoreRelative(currentScore, rating) ==
    IF rating = "GOOD"
    THEN Min(currentScore + SCORE_INCREASE_ON_GOOD, MAX_SCORE)
    ELSE Max(currentScore - (currentScore * SCORE_DECREASE_ON_BAD) \div 100, MIN_SCORE)

\* updateRuleScores, the new score of one rule as the column stores it.  The
\* score read is a two-decimal value s and the code writes
\* Math.min(s + 0.05, 1.0) or Math.max(s - 0.1, 0.0); stored with two decimals
\* that is the sum in hundredths for every s the column can hold (the doubles
\* differ from the decimal sums by less than 0.005).
NewScore(currentScore, rating) ==
    IF rating = "GOOD"
    THEN Min(currentScore + SCORE_INCREASE_ON_GOOD, MAX_SCORE)
    ELSE Max(currentScore - SCORE_DECREASE_ON_BAD, MIN_SCORE)

\* The request or call that starts next is served as the first idle one.
FreeProc(p) ==
    /\ procs[p].pc = "idle"
    /\ \A i, j \in DOMAIN ProcOrder :
           (ProcOrder[j] = p /\ i < j) => procs[ProcOrder[i]].pc # "idle"

\* recordApplication: the row it inserts.
ApplicationRow(m, ruleIds) ==
    [message_id |-> m, applied_rule_ids |-> ruleIds, feedback_rating |-> NoRow]

\* recordApplication(messageId, documentId, ruleIds) called on its own:
\* whatever the message and the list, a row is inserted.
RecordApplication(m, ruleIds) ==
    /\ Len(applications) < MaxApplications
    /\ applications' = Append(applications, ApplicationRow(m, ruleIds))
    /\ UNCHANGED <<rules, qaFeedback, eventLog, procs, chat, calls>>
    /\ UNCHANGED <<selVars, evalVars, orchVars, ruleVars>>

EnabledRules == {r \in RuleIds : rules[r].exists /\ rules[r].enabled}

\* .order('score', { ascending: false }): the orders the store may return the
\* rules in; rules of equal score come in any order.
HighestFirst(ids) ==
    {order \in RuleLists :
        /\ Len(order) = Cardinality(ids)
        /\ \A r \in ids : \E n \in DOMAIN order : order[n] = r
        /\ \A m, n \in DOMAIN order : m < n => rules[order[m]].score >= rules[order[n]].score}

\* getApplicableRules(documentId, message) as the chat calls it: the enabled
\* rules of the document whose trigger pattern is absent or matches the
\* message, by descending score, in each order the store may give them.
\* matching are the rules the message matches; a failed read gives none.
ChatRulesOf(d, matching) ==
    HighestFirst({r \in EnabledRules : rules[r].document_id = d /\ r \in matching})

\* uniqueRules: the first occurrence of each rule of appliedRules.
UniqueRules(appliedRules) ==
    LET unique[n \in 0..Len(appliedRules)] ==
            IF n = 0 THEN <<>>
            ELSE IF \E j \in 1..(n - 1) : appliedRules[j] = appliedRules[n]
                 THEN unique[n - 1]
                 ELSE Append(unique[n - 1], appliedRules[n])
    IN unique[Len(appliedRules)]

\* POST /api/qa/chat up to the return of searchDocuments: the session is
\* found (the route answers 404 without it), the user message is saved and
\* the sources are found.
PostChat(sources) ==
    /\ chat.pc = "idle"
    /\ chat.session
    /\ chat.answered < Min(MaxChats, Len(MessageOrder))
    /\ chat' = [chat EXCEPT !.pc = IF sources = <<>> THEN "answer" ELSE "lookup",
                            !.sources = sources, !.rules = <<>>]
    /\ UNCHANGED <<rules, applications, qaFeedback, eventLog, procs, calls>>
    /\ UNCHANGED <<selVars, evalVars, orchVars, ruleVars>>

\* POST /api/qa/chat, one iteration of the loop over the sources: the rules
\* of the source's document as they are at this await are appended to
\* appliedRules, in the order the store returns them.
GetChatRules(matching, order) ==
    /\ chat.pc = "lookup"
    /\ order \in ChatRulesOf(Head(chat.sources), matching)
    /\ chat' = [chat EXCEPT !.pc = IF Len(chat.sources) = 1 THEN "answer" ELSE "lookup",
                            !.sources = Tail(@),
                            !.rules = @ \o order]
    /\ UNCHANGED <<rules, applications, qaFeedback, eventLog, procs, calls>>
    /\ UNCHANGED <<selVars, evalVars, orchVars, ruleVars>>

\* POST /api/qa/chat from the completion call to the insert of the assistant
\* message.  saved says that the insert returned the message, which it
\* cannot once the session is deleted (session_id references qa_sessions);
\* recordApplication is still to be called when it did and uniqueRules is not
\* empty.
AnswerChat(saved) ==
    /\ chat.pc = "answer"
    /\ saved => chat.session
    /\ chat' = IF saved /\ UniqueRules(chat.rules) # <<>>
               THEN [chat EXCEPT !.pc = "record", !.answered = @ + 1]
               ELSE [ChatDone(chat) EXCEPT !.answered = @ + (IF saved THEN 1 ELSE 0)]
    /\ UNCHANGED <<rules, applications, qaFeedback, eventLog, procs, calls>>
    /\ UNCHANGED <<selVars, evalVars, orchVars, ruleVars>>

\* The assistant message m is in qa_messages.
Answered(m) == \E i \in (chat.deleted + 1)..chat.answered : MessageOrder[i] = m

\* POST /api/qa/chat, its call of recordApplication for the message it has
\* inserted; a failed insert is logged and the route goes on.  The insert
\* fails when the message is deleted (message_id references qa_messages).
RecordChatApplication(recorded) ==
    /\ chat.pc = "record"
    /\ recorded => Answered(MessageOrder[chat.answered])
    /\ applications' =
           IF recorded
           THEN Append(applications,
                       ApplicationRow(MessageOrder[chat.answered], UniqueRules(chat.rules)))
           ELSE applications
    /\ chat' = ChatDone(chat)
    /\ UNCHANGED <<rules, qaFeedback, eventLog, procs, calls>>
    /\ UNCHANGED <<selVars, evalVars, orchVars, ruleVars>>

\* DELETE /api/qa/sessions/[sessionId]: the row of the session is deleted.
\* Its messages go with it (qa_messages.session_id ON DELETE CASCADE), and
\* the feedback rows and application rows of those messages stay with
\* message_id null (ON DELETE SET NULL).  qaFeedback keeps the rows under
\* the message they were given for: their message_id is null from now on,
\* and no lookup by message_id finds them, since the feedback route looks
\* the message up first.
DeleteSession ==
    /\ chat.session
    /\ chat' = [chat EXCEPT !.session = FALSE, !.deleted = chat.answered]
    /\ applications' =
           [i \in DOMAIN applications |->
               IF Answered(applications[i].message_id)
               THEN [applications[i] EXCEPT !.message_id = NoRow]
               ELSE applications[i]]
    /\ UNCHANGED <<rules, qaFeedback, eventLog, procs, calls>>
    /\ UNCHANGED <<selVars, evalVars, orchVars, ruleVars>>

\* POST /api/qa/feedback up to the lookup of the message's feedback row;
\* .single() gives a row when there is exactly one.  A message that does not
\* exist is answered 404.
PostFeedback(p, m, rating) ==
    /\ FreeProc(p)
    /\ calls < MaxFeedbacks
    /\ Answered(m)
    /\ procs' = [procs EXCEPT ![p] =
                    [IdleProc EXCEPT !.pc = "save", !.message = m, !.rating = rating,
                                     !.existing = (Len(qaFeedback[m]) = 1)]]
    /\ calls' = calls + 1
    /\ UNCHANGED <<rules, applications, qaFeedback, eventLog, chat>>
    /\ UNCHANGED <<selVars, evalVars, orchVars, ruleVars>>

\* POST /api/qa/feedback: the row found is updated, or a row is inserted; the
\* request is answered 500 when that fails and goes on to updateRuleScores
\* otherwise.  The insert fails when the message is deleted (message_id
\* references qa_messages); the update is of the row by its id.
SaveFeedback(p, saved) ==
    /\ procs[p].pc = "save"
    /\ (saved /\ ~procs[p].existing) => Answered(procs[p].message)
    /\ IF saved
       THEN /\ qaFeedback' =
                   [qaFeedback EXCEPT ![procs[p].message] =
                       IF procs[p].existing
                       THEN [@ EXCEPT ![1] = procs[p].rating]
                       ELSE Append(@, procs[p].rating)]
            /\ procs' = [procs EXCEPT ![p].pc = "fetch"]
       ELSE /\ procs' = [procs EXCEPT ![p] = IdleProc]
            /\ UNCHANGED qaFeedback
    /\ UNCHANGED <<rules, applications, eventLog, chat, calls>>
    /\ UNCHANGED <<selVars, evalVars, orchVars, ruleVars>>

\* updateRuleScores(messageId, rating) called on its own.
UpdateRuleScores(p, m, rating) ==
    /\ FreeProc(p)
    /\ calls < MaxCalls
    /\ procs' = [procs EXCEPT ![p] =
                    [IdleProc EXCEPT !.pc = "fetch", !.message = m, !.rating = rating]]
    /\ calls' = calls + 1
    /\ UNCHANGED <<rules, applications, qaFeedback, eventLog, chat>>
    /\ UNCHANGED <<selVars, evalVars, orchVars, ruleVars>>

\* const { data: application } = await ...select('*').eq('message_id', ...).single()
\* The method returns unless the message has exactly one row.
FetchApplication(p) ==
    /\ procs[p].pc = "fetch"
    /\ LET found == {i \in DOMAIN applications :
                        applications[i].message_id = procs[p].message}
       IN procs' = [procs EXCEPT ![p] =
                       IF Cardinality(found) = 1
                       THEN LET i == CHOOSE j \in found : TRUE
                            IN [@ EXCEPT !.pc = "mark", !.application = i,
                                         !.todo = applications[i].applied_rule_ids]
                       ELSE IdleProc]
    /\ UNCHANGED <<rules, applications, qaFeedback, eventLog, chat, calls>>
    /\ UNCHANGED <<selVars, evalVars, orchVars, ruleVars>>

\* await ...update({ feedback_rating: rating }).eq('id', application.id); the
\* method returns when the row lists no rules.
MarkApplication(p) ==
    /\ procs[p].pc = "mark"
    /\ applications' = [applications EXCEPT
                           ![procs[p].application].feedback_rating = procs[p].rating]
    /\ procs' = [procs EXCEPT ![p] =
                    IF procs[p].todo = <<>> THEN IdleProc ELSE [@ EXCEPT !.pc = "read"]]
    /\ UNCHANGED <<rules, qaFeedback, eventLog, chat, calls>>
    /\ UNCHANGED <<selVars, evalVars, orchVars, ruleVars>>

\* The loop of updateRuleScores after one rule: the next rule, or the return.
AfterRule(proc) ==
    IF Tail(proc.todo) = <<>> THEN IdleProc
    ELSE [proc EXCEPT !.pc = "read", !.todo = Tail(proc.todo)]

\* const { data: rule } = await ...select('score').eq('id', ruleId).single();
\* a rule that is not there is skipped.
ReadScore(p) ==
    /\ procs[p].pc = "read"
    /\ LET r == Head(procs[p].todo)
       IN procs' = [procs EXCEPT ![p] =
                       IF rules[r].exists
                       THEN [@ EXCEPT !.pc = "write", !.cur = rules[r].score]
                       ELSE AfterRule(@)]
    /\ UNCHANGED <<rules, applications, qaFeedback, eventLog, chat, calls>>
    /\ UNCHANGED <<selVars, evalVars, orchVars, ruleVars>>

\* await ...update({ score: newScore, ... }).eq('id', ruleId); the update of a
\* rule deleted since the read changes no row.
WriteScore(p) ==
    /\ procs[p].pc = "write"
    /\ LET r == Head(procs[p].todo)
           newScore == NewScore(procs[p].cur, procs[p].rating)
       IN IF rules[r].exists
          THEN /\ rules' = [rules EXCEPT ![r].score = newScore]
               /\ eventLog' = [eventLog EXCEPT ![r] = Append(@,
                                  [message |-> procs[p].message, rating |-> procs[p].rating,
                                   before |-> procs[p].cur, after |-> newScore])]
          ELSE UNCHANGED <<rules, eventLog>>
    /\ procs' = [procs EXCEPT ![p] = AfterRule(@)]
    /\ UNCHANGED <<applications, qaFeedback, chat, calls>>
    /\ UNCHANGED <<selVars, evalVars, orchVars, ruleVars>>

\* setRuleEnabled(ruleId, enabled): the update of a rule that is not there
\* changes no row.
SetRuleEnabled(r, enabled) ==
    /\ rules' = IF rules[r].exists THEN [rules EXCEPT ![r].enabled = enabled] ELSE rules
    /\ UNCHANGED <<applications, qaFeedback, eventLog, procs, chat, calls>>
    /\ UNCHANGED <<selVars, evalVars, orchVars, ruleVars>>

\* deleteRule(ruleId)
DeleteRule(r) ==
    /\ rules' = IF rules[r].exists THEN [rules EXCEPT ![r] = DeletedRule] ELSE rules
    /\ UNCHANGED <<applications, qaFeedback, eventLog, procs, chat, calls>>
    /\ UNCHANGED <<selVars, evalVars, orchVars, ruleVars>>

\* PATCH /api/interpretation/rules/[id] with enabled in its body; for a rule
\* that is not there .single() fails and the route answers 500.
PatchRule(r, enabled) ==
    /\ rules' = IF rules[r].exists THEN [rules EXCEPT ![r].enabled = enabled] ELSE rules
    /\ UNCHANGED <<applications, qaFeedback, eventLog, procs, chat, calls>>
    /\ UNCHANGED <<selVars, evalVars, orchVars, ruleVars>>

\* DELETE /api/interpretation/rules/[id]: the route first deletes the
\* application rows whose rule_id is the rule's, a column recordApplication
\* never fills, so the rows that list the rule stay; then it deletes the rule.
DeleteRuleRoute(r) ==
    /\ rules' = IF rules[r].exists THEN [rules EXCEPT ![r] = DeletedRule] ELSE rules
    /\ UNCHANGED <<applications, qaFeedback, eventLog, procs, chat, calls>>
    /\ UNCHANGED <<selVars, evalVars, orchVars, ruleVars>>
----------------------------------------------------------------------------
(* Rule adoption: the two workflows that insert rules into the ledger *)

\* DEFAULT_INTERPRETATION_EVOLUTION_CONFIG.minWinRate, and
\* DEFAULT_SELF_EVOLUTION_CONFIG.minImprovementRate and weaknessThreshold, in
\* hundredths.
MinWinRate == 60
MinImprovementRate == 20
WeaknessThreshold == 50

\* DEFAULT_INTERPRETATION_EVOLUTION_CONFIG, the fields the workflow reads.
DEFAULT_INTERPRETATION_EVOLUTION_CONFIG ==
    [badFeedbackThreshold |-> 3, minWinRate |-> MinWinRate, autoEnable |-> TRUE]

\* The config of a request body: none, or some fields of the config.
RuleRequestConfigs ==
    {<<>>, [autoEnable |-> FALSE], [badFeedbackThreshold |-> 2], [minWinRate |-> 80]}

\* { ...DEFAULT_INTERPRETATION_EVOLUTION_CONFIG, ...config }
FullConfig(cfg) ==
    [f \in DOMAIN DEFAULT_INTERPRETATION_EVOLUTION_CONFIG |->
        IF f \in DOMAIN cfg THEN cfg[f] ELSE DEFAULT_INTERPRETATION_EVOLUTION_CONFIG[f]]

\* What evaluateCandidate has counted for one candidate: twice its wins (a tie
\* is half a win), its comparisons, and the judge scores of the answers with
\* the rule summed over the comparisons, as <<correctness, helpfulness,
\* coherence>>.  Judge scores are whole numbers from 1 to 5.
ScoreSums == {<<2, 2, 2>>, <<5, 5, 5>>, <<7, 8, 7>>, <<8, 8, 8>>, <<10, 10, 10>>}

InterpResults ==
    {[wins2 |-> w, comparisons |-> 2, scoreB |-> t] : w \in 0..4, t \in ScoreSums}
        \cup {[wins2 |-> 0, comparisons |-> 0, scoreB |-> <<0, 0, 0>>]}

\* evaluateCandidate: win_rate = totalWins / totalComparisons, 0 without
\* comparisons.
WinRateOf(result) ==
    IF result.comparisons > 0
    THEN DDiv(DLit(result.wins2, 2), DInt(result.comparisons))
    ELSE DZero

\* evaluateCandidate: avg_score, the mean of the three averages of scoreB.
AvgScoreOf(result) ==
    LET Avg(total) == IF result.comparisons > 0
                      THEN DDiv(DInt(total), DInt(result.comparisons))
                      ELSE DZero
    IN DDiv(DAdd(DAdd(Avg(result.scoreB[1]), Avg(result.scoreB[2])),
                 Avg(result.scoreB[3])),
            DInt(3))

\* createRule: score: rule.score || 0.5, enabled as given; the column keeps
\* two decimals of the score.
CreateRule(score, enabled, origin) ==
    [exists |-> TRUE,
     score |-> IF score.m = WZero THEN 50 ELSE Decimal2(score),
     enabled |-> enabled,
     origin |-> origin]

\* What the workflow reads of a result: its win rate, its average score and
\* the score of its rule as the column stores it.
ResultValue(win_rate, avg_score) ==
    [win_rate |-> win_rate, avg_score |-> avg_score,
     score |-> CreateRule(DDiv(avg_score, DInt(5)), TRUE, "feedback").score]

\* The numbers of each result of InterpResults, computed once.
ResultValues ==
    {<<result, ResultValue(WinRateOf(result), AvgScoreOf(result))>> :
        result \in InterpResults}

\* result.win_rate >= config.minWinRate
ReachesMinWinRate(result, cfg) ==
    DGeq(Lookup(ResultValues, result).win_rate, Hundredth(cfg.minWinRate))

\* The with_rule scores of the results of one evaluateWithComparison call: for
\* each result the sum of its accuracy, completeness, clarity and relevance.
\* evaluateAndAdoptRules evaluates on at most five questions.
SelfResultLists ==
    {<<>>,
     <<4, 4, 4, 4, 4>>, <<5, 5, 5, 5, 4>>,
     <<8, 8, 8, 8, 8>>, <<9, 9, 9, 9, 8>>, <<10, 10, 10, 9, 9>>, <<11, 10, 10, 10, 10>>,
     <<16, 16, 16, 16, 16>>}

\* SelfEvolutionWorkflow.calculateAverageScore: the mean over the results of
\* (accuracy + completeness + clarity + relevance) / 4.  The quarters add
\* without rounding.
AverageOfResults(results) ==
    IF Len(results) = 0 THEN DZero
    ELSE DDiv(DLit(SumSeq(results), 4), DInt(Len(results)))

\* calculateImprovementRate: 0 when either list is empty, else
\* (avgAfter - avgBefore) / Math.max(avgBefore, 1).
ImprovementRate(resultsBefore, resultsAfter) ==
    IF Len(resultsBefore) = 0 \/ Len(resultsAfter) = 0 THEN DZero
    ELSE DDiv(DSub(AverageOfResults(resultsAfter), AverageOfResults(resultsBefore)),
              DMax(AverageOfResults(resultsBefore), DInt(1)))

\* evaluateAndAdoptRules: score: 0.5 + improvementRate.
SelfEvolutionScore(improvementRate) == DAdd(Hundredth(50), improvementRate)

\* What evaluateAndAdoptRules makes of an improvement rate: the rate and the
\* score of the rule as the column stores it.
SelfValue(improvementRate) ==
    [improvementRate |-> improvementRate,
     score |-> CreateRule(SelfEvolutionScore(improvementRate), TRUE, "self").score]

\* The numbers of each pair of result lists, computed once.
SelfValues ==
    {<<pair, SelfValue(ImprovementRate(pair[1], pair[2]))>> :
        pair \in SelfResultLists \X SelfResultLists}

\* DEFAULT_SELF_EVOLUTION_CONFIG, the fields the workflow and the evaluation
\* engine read, the two numbers in hundredths.
DEFAULT_SELF_EVOLUTION_CONFIG ==
    [weaknessThreshold |-> WeaknessThreshold, minImprovementRate |-> MinImprovementRate,
     autoEnable |-> TRUE]

\* The config of a self-evolution request: none, or some fields of the config.
SelfRequestConfigs ==
    {<<>>, [autoEnable |-> FALSE], [minImprovementRate |-> 25], [weaknessThreshold |-> 25]}

\* { ...DEFAULT_SELF_EVOLUTION_CONFIG, ...config }
FullSelfConfig(cfg) ==
    [f \in DOMAIN DEFAULT_SELF_EVOLUTION_CONFIG |->
        IF f \in DOMAIN cfg THEN cfg[f] ELSE DEFAULT_SELF_EVOLUTION_CONFIG[f]]

\* improvementRate >= config.minImprovementRate
ReachesMinImprovementRate(resultsBefore, resultsAfter, cfg) ==
    DGeq(Lookup(SelfValues, <<resultsBefore, resultsAfter>>).improvementRate,
         Hundredth(cfg.minImprovementRate))

\* An insert that checks nothing.
InsertUnchecked(table, r, row) == [table EXCEPT ![r] = row]

\* The insert of createRule.  The column is declared score DECIMAL(3, 2) CHECK
\* (score >= 0 AND score <= 1): a row whose score is out of range is refused,
\* the store reports the error and createRule returns null.
InsertRule(table, r, row) ==
    IF row.score < MIN_SCORE \/ row.score > MAX_SCORE
    THEN table
    ELSE [table EXCEPT ![r] = row]

\* createRule for a candidate that passed its gate.
AdoptRule(r, reaches, score, enabled, origin, d) ==
    /\ rules[r] = NoRule
    /\ reaches
    /\ rules' = InsertRule(rules, r,
                           [exists |-> TRUE, score |-> score, enabled |-> enabled,
                            origin |-> origin, document_id |-> d])
    /\ UNCHANGED <<applications, qaFeedback, eventLog, procs, chat, calls>>
    /\ UNCHANGED <<selVars, evalVars, orchVars, ruleVars>>

\* InterpretationEvolutionWorkflow.processDocument, step 5 for one result of
\* a job on document d: a rule is created when win_rate >= config.minWinRate,
\* with score avg_score / 5 and enabled as config.autoEnable says.
AdoptEvaluatedRule(r, d, result, cfg) ==
    AdoptRule(r, ReachesMinWinRate(result, FullConfig(cfg)),
              Lookup(ResultValues, result).score, FullConfig(cfg).autoEnable, "feedback", d)

\* SelfEvolutionWorkflow.evaluateAndAdoptRules for one candidate of a job on
\* document d: a rule is created when improvementRate >=
\* config.minImprovementRate, with score 0.5 + improvementRate.
AdoptSelfEvolvedRule(r, d, resultsBefore, resultsAfter, cfg) ==
    AdoptRule(r, ReachesMinImprovementRate(resultsBefore, resultsAfter, FullSelfConfig(cfg)),
              Lookup(SelfValues, <<resultsBefore, resultsAfter>>).score,
              FullSelfConfig(cfg).autoEnable, "self", d)
----------------------------------------------------------------------------
(* Winner selection: EvolutionWorkflow.selectWinner.  The winRate and the    *)
(* score of an evaluation result are Math.round(x * 100) / 100, held here in *)
(* hundredths; minWinMargin is a number of the configuration with two        *)
(* decimals, in hundredths too.                                              *)

\* DEFAULT_EVOLUTION_CONFIG.minWinMargin, in hundredths.
DefaultMinWinMargin == 10

CandidateIds == <<"c1", "c2", "c3">>
NoWinner == [candidateId |-> "none", winRate |-> -1, score |-> 0]

\* [...results].sort((a, b) => b.winRate - a.winRate): a stable sort, so x goes
\* behind every element whose winRate is at least its own.  The doubles are in
\* the order of their hundredths.
RECURSIVE InsertByWinRate(_, _)
InsertByWinRate(sorted, x) ==
    IF sorted = <<>> THEN <<x>>
    ELSE IF Head(sorted).winRate >= x.winRate
         THEN <<Head(sorted)>> \o InsertByWinRate(Tail(sorted), x)
         ELSE <<x>> \o sorted

RECURSIVE SortByWinRate(_)
SortByWinRate(results) ==
    IF results = <<>> THEN <<>>
    ELSE InsertByWinRate(SortByWinRate(SubSeq(results, 1, Len(results) - 1)),
                         results[Len(results)])

\* 0.5 + this.config.minWinMargin for each margin up to 0.5, computed once.
Thresholds == {<<h, DAdd(Hundredth(50), Hundredth(h))>> : h \in 0..50}

\* A selection whose comparison is turned around.
SelectWinnerInverted(results, minWinMargin) ==
    LET sortedResults == SortByWinRate(results)
    IN IF /\ sortedResults # <<>>
          /\ DGeq(Lookup(Thresholds, minWinMargin), Hundredth(sortedResults[1].winRate))
       THEN sortedResults[1]
       ELSE NoWinner

\* selectWinner: the top of the sorted results, if
\* topCandidate.winRate >= 0.5 + this.config.minWinMargin.
SelectWinner(results, minWinMargin) ==
    LET sortedResults == SortByWinRate(results)
    IN IF /\ sortedResults # <<>>
          /\ DGeq(Hundredth(sortedResults[1].winRate), Lookup(Thresholds, minWinMargin))
       THEN sortedResults[1]
       ELSE NoWinner

\* Fixture inputs.
WinRates == {0, 57, 60, 80}
MeanScores == {300, 400}
Margins == {0, 7, 10, 20}

\* One candidate per mutation prompt at most.
MaxCands == Len(CandidateIds)

\* Jobs in a fixture.
MaxJobs == 2

ResultLists ==
    UNION {{[i \in 1..n |-> [candidateId |-> CandidateIds[i], winRate |-> w[i], score |-> sc[i]]] :
               w \in [1..n -> WinRates], sc \in [1..n -> MeanScores]} : n \in 0..MaxCands}

\* One more job of the fixture: its results are selected under both margins.
SelectJob(results) ==
    /\ selJobs < MaxJobs
    /\ selJobs' = selJobs + 1
    /\ selResults' = results
    /\ selWinners' = <<SelectWinner(results, selMargins[1]),
                       SelectWinner(results, selMargins[2])>>
    /\ adoptCounts' = [i \in 1..2 |->
                          adoptCounts[i] + IF selWinners'[i] # NoWinner THEN 1 ELSE 0]
    /\ UNCHANGED selMargins
    /\ UNCHANGED <<ledgerVars, evalVars, orchVars, ruleVars>>

----------------------------------------------------------------------------
(* Candidate evaluation: EvaluationEngine.evaluateSingleCandidate and        *)
(* InterpretationEvaluationEngine.evaluateCandidate, one comparison a step.  *)
(* Counters hold twice the number of wins, so that half a win is a unit.     *)

\* Most sample questions of one evaluation.
MaxQuestions == 4

\* What one pairwise comparison can come to: a verdict, a verdict text that
\* cannot be parsed, or a completion call that fails.
OutcomeKinds == {"A", "B", "TIE", "unparseable", "failed"}

\* The candidate side's scores in one verdict, <<helpfulness, correctness,
\* coherence>> for the document evaluator and <<correctness, helpfulness,
\* coherence>> for the other.
JudgeScores == {<<1, 1, 1>>, <<3, 3, 3>>, <<5, 4, 4>>}

\* The scores runPairwiseComparison gives a verdict that cannot be parsed.
DefaultScores == <<3, 3, 3>>

NoCounts == [k \in OutcomeKinds |-> 0]

IdleEval == [engine |-> "none", pc |-> "idle", questions |-> 0,
             totalWins2 |-> 0, totalLosses |-> 0, totalTies |-> 0,
             totalComparisons |-> 0, scores |-> <<0, 0, 0>>, seen |-> NoCounts,
             winRateNum |-> 0, winRateDen |-> 1, winRate |-> DZero, score |-> DZero]

AddScores(total, t) == <<total[1] + t[1], total[2] + t[2], total[3] + t[3]>>

\* average(): the sum over the length, 0 for an empty list.
Average(total, n) == IF n = 0 THEN DZero ELSE DDiv(DInt(total), DInt(n))

\* evaluateSingleCandidate: score, the mean of the three metric averages,
\* as Math.round(score * 100) / 100 in hundredths.
AverageScore(scores, n) ==
    JSRound(DTimes(DDiv(DAdd(DAdd(Average(scores[1], n), Average(scores[2], n)),
                             Average(scores[3], n)),
                        DInt(3)),
                   100))

\* evaluateSingleCandidate, after the loop: winRate = wins / (wins + losses +
\* ties), 0 without comparisons; winRate and score are rounded to two decimals.
EvaluateSingleCandidate(id, wins, losses, ties, scores) ==
    LET totalComparisons == wins + losses + ties
    IN [candidateId |-> id,
        winRate |-> IF totalComparisons > 0
                    THEN JSRound(DTimes(DDiv(DInt(wins), DInt(totalComparisons)), 100))
                    ELSE 0,
        score |-> AverageScore(scores, totalComparisons)]

\* evaluateCandidates, the catch branch: a candidate whose evaluation threw.
FailedEvaluation(id) == [candidateId |-> id, winRate |-> 0, score |-> 0]

\* EvaluationEngine: one iteration of the loop over sampleQuestions.  A verdict
\* that cannot be parsed counts as TIE with scores (3,3,3); a failed call
\* throws out of the loop and the candidate is recorded with winRate 0.
DocCompare(kind, judged) ==
    /\ ev.engine = "document" /\ ev.pc = "running" /\ ev.questions > 0
    /\ ev' = IF kind = "failed"
             THEN [ev EXCEPT !.pc = "done", !.seen[kind] = @ + 1,
                             !.winRateNum = 0, !.winRateDen = 1,
                             !.winRate = DLit(FailedEvaluation("c1").winRate, 100),
                             !.score = DLit(FailedEvaluation("c1").score, 100)]
             ELSE [ev EXCEPT !.questions = @ - 1,
                             !.seen[kind] = @ + 1,
                             !.totalWins2 = IF kind = "B" THEN @ + 2 ELSE @,
                             !.totalLosses = IF kind = "A" THEN @ + 1 ELSE @,
                             !.totalTies = IF kind \in {"TIE", "unparseable"} THEN @ + 1 ELSE @,
                             !.scores = AddScores(@, IF kind = "unparseable"
                                                     THEN DefaultScores ELSE judged)]
    /\ UNCHANGED <<ledgerVars, selVars, orchVars, ruleVars>>

\* EvaluationEngine: the result once every question has been compared.
DocFinish ==
    /\ ev.engine = "document" /\ ev.pc = "running" /\ ev.questions = 0
    /\ LET wins == ev.totalWins2 \div 2
           total == wins + ev.totalLosses + ev.totalTies
           result == EvaluateSingleCandidate("c1", wins, ev.totalLosses, ev.totalTies, ev.scores)
       IN ev' = [ev EXCEPT !.pc = "done",
                           !.totalComparisons = total,
                           !.winRateNum = wins,
                           !.winRateDen = IF total > 0 THEN total ELSE 1,
                           !.winRate = DLit(result.winRate, 100),
                           !.score = DLit(result.score, 100)]
    /\ UNCHANGED <<ledgerVars, selVars, orchVars, ruleVars>>

\* InterpretationEvaluationEngine: one iteration of the loop.  A failed call
\* and a verdict that cannot be parsed are both skipped; B is a win and TIE is
\* half a win.
InterpCompare(kind, judged) ==
    /\ ev.engine = "interpretation" /\ ev.pc = "running" /\ ev.questions > 0
    /\ ev' = IF kind \in {"failed", "unparseable"}
             THEN [ev EXCEPT !.questions = @ - 1, !.seen[kind] = @ + 1]
             ELSE [ev EXCEPT !.questions = @ - 1,
                             !.seen[kind] = @ + 1,
                             !.totalComparisons = @ + 1,
                             !.totalWins2 = IF kind = "B" THEN @ + 2
                                            ELSE IF kind = "TIE" THEN @ + 1 ELSE @,
                             !.scores = AddScores(@, judged)]
    /\ UNCHANGED <<ledgerVars, selVars, orchVars, ruleVars>>

\* InterpretationEvaluationEngine: win_rate = totalWins / totalComparisons, 0
\* without comparisons; avg_score is the mean of the three averages of the
\* scores with the rule.  Neither is rounded.
InterpFinish ==
    /\ ev.engine = "interpretation" /\ ev.pc = "running" /\ ev.questions = 0
    /\ LET result == [wins2 |-> ev.totalWins2, comparisons |-> ev.totalComparisons,
                      scoreB |-> ev.scores]
       IN ev' = [ev EXCEPT !.pc = "done",
                           !.winRateNum = IF ev.totalComparisons > 0 THEN ev.totalWins2 ELSE 0,
                           !.winRateDen = IF ev.totalComparisons > 0
                                          THEN 2 * ev.totalComparisons ELSE 1,
                           !.winRate = WinRateOf(result),
                           !.score = AvgScoreOf(result)]
    /\ UNCHANGED <<ledgerVars, selVars, orchVars, ruleVars>>

----------------------------------------------------------------------------
(* Document evolution: POST /api/evolution/run, served by                    *)
(* EvolutionWorkflow.runEvolution or evolveDocument.  Requests are numbered  *)
(* in the order they arrive and nothing keeps one out while another is       *)
(* served; a step is what one request does up to its next awaited call.  A   *)
(* job that has ended rests in the request's job until ReturnJob hands it to *)
(* the caller.                                                               *)

Docs == {"d1", "d2"}

\* MUTATION_PROMPTS, in menu order; candidate i is the one of prompt i.
MutationTypes == <<"MUTATION_CLARITY", "MUTATION_DETAIL", "MUTATION_QA_FORMAT">>

DEFAULT_EVOLUTION_CONFIG ==
    [badFeedbackThreshold |-> 3, candidateCount |-> 3, evaluationSampleSize |-> 5,
     minWinMargin |-> DefaultMinWinMargin, autoUpdate |-> FALSE]

\* The constructor merges a partial config over the defaults.
Configs ==
    {[DEFAULT_EVOLUTION_CONFIG EXCEPT !.autoUpdate = a, !.minWinMargin = m] :
        a \in BOOLEAN, m \in {DefaultMinWinMargin, 20}}

\* Most BAD and GOOD rows document d1 starts with, most BAD rows document d2
\* starts with, and most evolution requests.
MaxBad == 3
MaxGood == 2
MaxBadOther == 1
MaxRequests == 1

\* Most evolution requests where several follow one another, and where
\* several are served at the same time.
MaxReruns == 2
MaxRuns == 2

Reqs == 1..Max(MaxRequests, Max(MaxReruns, MaxRuns))

\* The candidate side's scores in each comparison of a job.
JobScores == <<4, 4, 4>>

\* prepareSampleQuestions: .limit(3) on the GOOD rows.
GoodSampleLimit == 3

\* evolveDocument: .limit(10) on the BAD rows.
TargetedFeedbackLimit == 10

FeedbackRow(d, rating) == [document_id |-> d, rating |-> rating, processed |-> FALSE]

RowsOf(d, nGood, nBad) ==
    [i \in 1..(nGood + nBad) |-> FeedbackRow(d, IF i <= nGood THEN "GOOD" ELSE "BAD")]

NoTarget == [documentId |-> "none", feedbacks |-> <<>>, currentGeneration |-> 0]

NoJob == [documentId |-> "none", triggerFeedbackIds |-> <<>>, status |-> "pending",
          candidates |-> <<>>, evaluationResults |-> <<>>,
          winnerCandidateId |-> "none", error |-> "none"]

NoResponse == [status |-> "none", jobs |-> <<>>]

\* One request.  eligible are the documents of feedbackByDocument that have
\* at least badFeedbackThreshold rows, pending those of them
\* identifyEvolutionTargets has still to read, doc the row it has read for the
\* first of them, identified the targets array of runEvolution and targets
\* what its loop has still to visit.  adopted lists the documents whose
\* generation the request has written.
IdleWorkflow == [pc |-> "idle", mode |-> "none", eligible |-> <<>>, pending |-> <<>>,
                 doc |-> 0, identified |-> <<>>, targets |-> <<>>,
                 target |-> NoTarget, job |-> NoJob, jobs |-> <<>>, sampleQuestions |-> 0,
                 faulted |-> FALSE, adopted |-> <<>>, response |-> NoResponse]

\* A request is in flight from its arrival to its answer.
InFlight(r) == wf[r].pc \notin {"idle", "returned"}

\* No request is in flight.
Quiet == \A r \in Reqs : ~InFlight(r)

\* The request has its answer.
Answer(w, response) ==
    [IdleWorkflow EXCEPT !.pc = "returned", !.mode = w.mode, !.adopted = w.adopted,
                         !.response = response]

\* .order('created_at', { ascending: false }): row ids, newest first.
RECURSIVE NewestFirst(_)
NewestFirst(ids) ==
    IF ids = {} THEN <<>>
    ELSE LET newest == CHOOSE i \in ids : \A j \in ids : j <= i
         IN <<newest>> \o NewestFirst(ids \ {newest})

\* The keys of feedbackByDocument in insertion order.
RECURSIVE DocumentOrder(_, _)
DocumentOrder(ids, seen) ==
    IF ids = <<>> THEN <<>>
    ELSE LET d == feedbackLogs[Head(ids)].document_id
         IN IF d \in seen THEN DocumentOrder(Tail(ids), seen)
            ELSE <<d>> \o DocumentOrder(Tail(ids), seen \cup {d})

RECURSIVE SelectIds(_, _)
SelectIds(ids, d) ==
    IF ids = <<>> THEN <<>>
    ELSE IF feedbackLogs[Head(ids)].document_id = d
         THEN <<Head(ids)>> \o SelectIds(Tail(ids), d)
         ELSE SelectIds(Tail(ids), d)

\* identifyEvolutionTargets: the documents of feedbackByDocument with at least
\* badFeedbackThreshold rows, each with its rows.
RECURSIVE TargetsOf(_, _)
TargetsOf(docOrder, ids) ==
    IF docOrder = <<>> THEN <<>>
    ELSE LET d == Head(docOrder)
             docFeedbacks == SelectIds(ids, d)
             rest == TargetsOf(Tail(docOrder), ids)
         IN IF Len(docFeedbacks) >= config.badFeedbackThreshold
            THEN <<[documentId |-> d, feedbacks |-> docFeedbacks]>> \o rest
            ELSE rest

\* processDocument, its first lines: the job as created.
NewJob(target) ==
    [NoJob EXCEPT !.documentId = target.documentId,
                  !.triggerFeedbackIds = target.feedbacks,
                  !.status = "generating"]

\* runEvolution, the catch branch: the job reported for a document whose
\* processing threw.
FailedJob(target) ==
    [NoJob EXCEPT !.documentId = target.documentId,
                  !.triggerFeedbackIds = target.feedbacks,
                  !.status = "failed",
                  !.error = "error"]

\* The loop of runEvolution: the next target's job begins, or the run returns
\* its jobs.
NextTarget(w) ==
    IF w.targets = <<>>
    THEN Answer(w, [status |-> "ok", jobs |-> w.jobs])
    ELSE [w EXCEPT !.pc = "generate", !.target = Head(w.targets),
                   !.targets = Tail(w.targets), !.job = NewJob(Head(w.targets)),
                   !.sampleQuestions = 0, !.faulted = FALSE]

\* POST /api/evolution/run without documentId: runEvolution, up to the
\* feedback query of identifyEvolutionTargets.  limit is the number of
\* requests the callers make.
RunEvolution(limit) ==
    /\ requests < limit
    /\ requests' = requests + 1
    /\ wf' = [wf EXCEPT ![requests + 1] =
                 [IdleWorkflow EXCEPT !.pc = "query", !.mode = "batch"]]
    /\ UNCHANGED <<config, feedbackLogs, documents, history>>
    /\ UNCHANGED <<ledgerVars, selVars, evalVars, ruleVars>>

\* identifyEvolutionTargets: the unprocessed BAD rows, newest first, grouped
\* by document; a failed query gives no target.
QueryFeedbacks(r, queryOk) ==
    /\ wf[r].pc = "query"
    /\ LET ids == NewestFirst({i \in DOMAIN feedbackLogs :
                                  /\ feedbackLogs[i].rating = "BAD"
                                  /\ ~feedbackLogs[i].processed})
           groups == IF queryOk THEN TargetsOf(DocumentOrder(ids, {}), ids) ELSE <<>>
       IN wf' = [wf EXCEPT ![r] =
                    IF groups = <<>> THEN NextTarget(@)
                    ELSE [@ EXCEPT !.pc = "row", !.pending = groups,
                                   !.eligible = [n \in DOMAIN groups |->
                                                    groups[n].documentId]]]
    /\ UNCHANGED <<config, feedbackLogs, documents, history, requests>>
    /\ UNCHANGED <<ledgerVars, selVars, evalVars, ruleVars>>

\* identifyEvolutionTargets, the loop after one document: the next document
\* is read, or the loop of runEvolution begins with the targets found.
AfterDocument(w) ==
    IF Tail(w.pending) # <<>>
    THEN [w EXCEPT !.pc = "row", !.pending = Tail(w.pending), !.doc = 0]
    ELSE NextTarget([w EXCEPT !.pending = <<>>, !.doc = 0, !.targets = w.identified])

\* identifyEvolutionTargets: the row of the document, its generation as it is
\* now; a document without a row is passed over.
ReadDocumentRow(r) ==
    /\ wf[r].pc = "row"
    /\ LET d == Head(wf[r].pending).documentId
       IN wf' = [wf EXCEPT ![r] =
                    IF d \in DOMAIN documents
                    THEN [@ EXCEPT !.pc = "drive", !.doc = documents[d].generation]
                    ELSE AfterDocument(@)]
    /\ UNCHANGED <<config, feedbackLogs, documents, history, requests>>
    /\ UNCHANGED <<ledgerVars, selVars, evalVars, ruleVars>>

\* identifyEvolutionTargets: the Drive content of the document; with it the
\* document is a target, without it the document is passed over.
GetDriveDocument(r, driveOk) ==
    /\ wf[r].pc = "drive"
    /\ LET group == Head(wf[r].pending)
           target == [documentId |-> group.documentId, feedbacks |-> group.feedbacks,
                      currentGeneration |-> wf[r].doc]
       IN wf' = [wf EXCEPT ![r] =
                    AfterDocument([@ EXCEPT !.identified =
                                      IF driveOk THEN Append(@, target) ELSE @])]
    /\ UNCHANGED <<config, feedbackLogs, documents, history, requests>>
    /\ UNCHANGED <<ledgerVars, selVars, evalVars, ruleVars>>

\* First n elements of a sequence.
Take(seq, n) == SubSeq(seq, 1, Min(Len(seq), n))

\* POST /api/evolution/run with a documentId: evolveDocument, up to the read
\* of the document's row.
EvolveDocument(limit, d) ==
    /\ requests < limit
    /\ requests' = requests + 1
    /\ wf' = [wf EXCEPT ![requests + 1] =
                 [IdleWorkflow EXCEPT !.pc = "document", !.mode = "single",
                                      !.pending = <<[documentId |-> d, feedbacks |-> <<>>]>>]]
    /\ UNCHANGED <<config, feedbackLogs, documents, history>>
    /\ UNCHANGED <<ledgerVars, selVars, evalVars, ruleVars>>

\* evolveDocument throws: the route answers 500.
Refused(w) == Answer(w, [status |-> "error", jobs |-> <<>>])

\* evolveDocument: the row of the document; without it the method throws.
ReadTargetDocument(r) ==
    /\ wf[r].pc = "document"
    /\ LET d == Head(wf[r].pending).documentId
       IN wf' = [wf EXCEPT ![r] =
                    IF d \in DOMAIN documents
                    THEN [@ EXCEPT !.pc = "feedbacks", !.doc = documents[d].generation]
                    ELSE Refused(@)]
    /\ UNCHANGED <<config, feedbackLogs, documents, history, requests>>
    /\ UNCHANGED <<ledgerVars, selVars, evalVars, ruleVars>>

\* evolveDocument: the newest BAD rows of the document, processed or not;
\* without any the method throws.
ReadTargetFeedbacks(r) ==
    /\ wf[r].pc = "feedbacks"
    /\ LET d == Head(wf[r].pending).documentId
           feedbacks ==
               Take(NewestFirst({i \in DOMAIN feedbackLogs :
                                    /\ feedbackLogs[i].document_id = d
                                    /\ feedbackLogs[i].rating = "BAD"}),
                    TargetedFeedbackLimit)
       IN wf' = [wf EXCEPT ![r] =
                    IF feedbacks = <<>> THEN Refused(@)
                    ELSE [@ EXCEPT !.pc = "content",
                                   !.pending = <<[documentId |-> d, feedbacks |-> feedbacks]>>]]
    /\ UNCHANGED <<config, feedbackLogs, documents, history, requests>>
    /\ UNCHANGED <<ledgerVars, selVars, evalVars, ruleVars>>

\* evolveDocument: the Drive content of the document; without it the method
\* throws, with it processDocument begins.
GetTargetDriveDocument(r, driveOk) ==
    /\ wf[r].pc = "content"
    /\ LET group == Head(wf[r].pending)
           target == [documentId |-> group.documentId, feedbacks |-> group.feedbacks,
                      currentGeneration |-> wf[r].doc]
       IN wf' = [wf EXCEPT ![r] =
                    IF driveOk
                    THEN NextTarget([@ EXCEPT !.pending = <<>>, !.doc = 0,
                                              !.targets = <<target>>])
                    ELSE Refused(@)]
    /\ UNCHANGED <<config, feedbackLogs, documents, history, requests>>
    /\ UNCHANGED <<ledgerVars, selVars, evalVars, ruleVars>>

RECURSIVE CandidatesOf(_, _)
CandidatesOf(i, succeeded) ==
    IF i > Len(MutationTypes) THEN <<>>
    ELSE (IF i \in succeeded
          THEN <<[id |-> CandidateIds[i], mutationType |-> MutationTypes[i]]>>
          ELSE <<>>) \o CandidatesOf(i + 1, succeeded)

\* processDocument, step 1 from the return of generateMutations:
\* job.candidates = candidates; job.status = 'evaluating'.
TakeCandidates(r, candidates) ==
    /\ wf[r].pc = "generate"
    /\ wf' = [wf EXCEPT ![r].pc = "prepare",
                        ![r].job.candidates = candidates,
                        ![r].job.status = "evaluating"]
    /\ UNCHANGED <<config, feedbackLogs, documents, history, requests>>

\* MutationEngine.generateMutations: one candidate per prompt whose completion
\* call succeeded, in menu order; then job.status = 'evaluating'.
GenerateMutations(r, succeeded) ==
    /\ TakeCandidates(r, CandidatesOf(1, succeeded))
    /\ UNCHANGED <<ledgerVars, selVars, evalVars, ruleVars>>

\* prepareSampleQuestions: the first evaluationSampleSize trigger questions and
\* up to three questions of GOOD rows of the document, none if that query
\* fails.
PrepareSampleQuestions(r, goodOk) ==
    /\ wf[r].pc = "prepare"
    /\ LET good == {i \in DOMAIN feedbackLogs :
                       /\ feedbackLogs[i].document_id = wf[r].target.documentId
                       /\ feedbackLogs[i].rating = "GOOD"}
       IN wf' = [wf EXCEPT ![r].pc = "evaluate",
                           ![r].sampleQuestions =
                               Min(Len(wf[r].target.feedbacks), config.evaluationSampleSize)
                               + (IF goodOk THEN Min(Cardinality(good), GoodSampleLimit) ELSE 0)]
    /\ UNCHANGED <<config, feedbackLogs, documents, history, requests>>
    /\ UNCHANGED <<ledgerVars, selVars, evalVars, ruleVars>>

\* What the evaluation of one candidate can come to over k questions: the
\* number of comparisons it wins, or -1 for an evaluation that threw.
EvaluationOutcomes(k) == {-1} \cup 0..k

\* Evaluation outcomes where several jobs follow one another: an evaluation
\* that threw, no win, every comparison won.
BatchOutcomes(k) == {-1, 0, k}

\* Most sample questions of a job.
MaxSample == DEFAULT_EVOLUTION_CONFIG.evaluationSampleSize + GoodSampleLimit

\* evaluateSingleCandidate over k questions of which the candidate wins w and
\* loses the others, for each <<k, w>>, computed once.
SampleResults ==
    {<<kw, EvaluateSingleCandidate("none", kw[2], kw[1] - kw[2], 0,
                                   <<JobScores[1] * kw[1], JobScores[2] * kw[1],
                                     JobScores[3] * kw[1]>>)>> :
        kw \in {pair \in (0..MaxSample) \X (0..MaxSample) : pair[2] <= pair[1]}}

\* An evaluation that leaves out the candidates whose evaluation threw.
RECURSIVE EvaluationResultsOfSucceeded(_, _, _)
EvaluationResultsOfSucceeded(candidates, outcome, k) ==
    IF candidates = <<>> THEN <<>>
    ELSE LET rest == EvaluationResultsOfSucceeded(
                         Tail(candidates),
                         [i \in 1..(Len(candidates) - 1) |-> outcome[i + 1]], k)
         IN IF outcome[1] = -1 THEN rest
            ELSE <<[Lookup(SampleResults, <<k, outcome[1]>>) EXCEPT
                       !.candidateId = Head(candidates).id]>> \o rest

\* EvaluationEngine.evaluateCandidates: one result per candidate, in order.
EvaluationResults(candidates, outcome, k) ==
    [i \in 1..Len(candidates) |->
        IF outcome[i] = -1
        THEN FailedEvaluation(candidates[i].id)
        ELSE [Lookup(SampleResults, <<k, outcome[i]>>) EXCEPT
                 !.candidateId = candidates[i].id]]

\* processDocument, steps 3 to 5 up to the next await: the results are stored,
\* selectWinner runs, a winner's id is recorded, and with autoUpdate the job
\* turns to 'updating'.
EvaluateCandidates(r, outcome) ==
    /\ wf[r].pc = "evaluate"
    /\ LET evaluationResults ==
               EvaluationResults(wf[r].job.candidates, outcome, wf[r].sampleQuestions)
           winner == SelectWinner(evaluationResults, config.minWinMargin)
       IN wf' = [wf EXCEPT
                    ![r].job.evaluationResults = evaluationResults,
                    ![r].job.winnerCandidateId =
                        IF winner # NoWinner THEN winner.candidateId ELSE @,
                    ![r].job.status =
                        IF winner # NoWinner /\ config.autoUpdate THEN "updating" ELSE @,
                    ![r].pc = IF winner # NoWinner /\ config.autoUpdate
                              THEN "update" ELSE "mark"]
    /\ UNCHANGED <<config, feedbackLogs, documents, history, requests>>
    /\ UNCHANGED <<ledgerVars, selVars, evalVars, ruleVars>>

\* updateDocument and recordEvolutionHistory: target.currentGeneration + 1.
NextGeneration(currentGeneration) == currentGeneration + 1

\* A store call either takes effect or returns an error the code does not
\* look at.
StoreOutcomes == {"ok", "error"}

\* updateDocument: the document's generation becomes the snapshot plus one.
UpdateDocument(r, outcome) ==
    /\ wf[r].pc = "update"
    /\ documents' = IF outcome = "ok"
                    THEN [documents EXCEPT ![wf[r].target.documentId].generation =
                                               NextGeneration(wf[r].target.currentGeneration)]
                    ELSE documents
    /\ wf' = [wf EXCEPT ![r].pc = "mark", ![r].faulted = @ \/ outcome # "ok",
                        ![r].adopted = IF outcome = "ok"
                                       THEN Append(@, wf[r].target.documentId) ELSE @]
    /\ UNCHANGED <<config, feedbackLogs, history, requests>>
    /\ UNCHANGED <<ledgerVars, selVars, evalVars, ruleVars>>

\* update({ processed: true }).in('id', feedbackIds)
MarkProcessed(logs, ids) ==
    [i \in DOMAIN logs |->
        IF \E n \in DOMAIN ids : ids[n] = i THEN [logs[i] EXCEPT !.processed = TRUE]
        ELSE logs[i]]

\* markFeedbacksProcessed: every trigger row of the target.
MarkFeedbacksProcessed(r, outcome) ==
    /\ wf[r].pc = "mark"
    /\ feedbackLogs' = IF outcome = "ok"
                       THEN MarkProcessed(feedbackLogs, wf[r].target.feedbacks)
                       ELSE feedbackLogs
    /\ wf' = [wf EXCEPT ![r].pc = "record", ![r].faulted = @ \/ outcome # "ok"]
    /\ UNCHANGED <<config, documents, history, requests>>
    /\ UNCHANGED <<ledgerVars, selVars, evalVars, ruleVars>>

\* The winner's candidate and result, as recordEvolutionHistory finds them.
WinnerResult(job) ==
    IF job.winnerCandidateId = "none" THEN NoWinner
    ELSE CHOOSE x \in {job.evaluationResults[i] : i \in DOMAIN job.evaluationResults} :
             x.candidateId = job.winnerCandidateId

WinnerMutationType(job) ==
    IF job.winnerCandidateId = "none" THEN "NONE"
    ELSE LET c == CHOOSE x \in {job.candidates[i] : i \in DOMAIN job.candidates} :
                      x.id = job.winnerCandidateId
         IN c.mutationType

\* recordEvolutionHistory, then the last lines of processDocument: one history
\* row for the job, and the job is completed.
RecordEvolutionHistory(r, outcome) ==
    /\ wf[r].pc = "record"
    /\ history' = IF outcome = "ok"
                  THEN Append(history,
                              [document_id |-> wf[r].target.documentId,
                               generation |-> NextGeneration(wf[r].target.currentGeneration),
                               mutation_type |-> WinnerMutationType(wf[r].job),
                               win_rate |-> WinnerResult(wf[r].job).winRate,
                               trigger_feedback_ids |-> wf[r].job.triggerFeedbackIds])
                  ELSE history
    /\ wf' = [wf EXCEPT ![r].pc = "ended", ![r].job.status = "completed",
                        ![r].faulted = @ \/ outcome # "ok"]
    /\ UNCHANGED <<config, feedbackLogs, documents, requests>>
    /\ UNCHANGED <<ledgerVars, selVars, evalVars, ruleVars>>

\* A failure that marks the trigger rows before the job is reported.
ProcessDocumentThrowsMarking(r) ==
    /\ wf[r].pc \in {"prepare", "update", "mark", "record"}
    /\ wf' = [wf EXCEPT ![r].pc = "ended", ![r].job = FailedJob(wf[r].target),
                        ![r].faulted = TRUE]
    /\ feedbackLogs' = MarkProcessed(feedbackLogs, wf[r].target.feedbacks)
    /\ UNCHANGED <<config, documents, history, requests>>
    /\ UNCHANGED <<ledgerVars, selVars, evalVars, ruleVars>>

\* A store call of processDocument raises instead of returning.  runEvolution
\* catches it and reports a failed job; evolveDocument lets it through to the
\* route, which answers 500.
ProcessDocumentThrows(r) ==
    /\ wf[r].pc \in {"prepare", "update", "mark", "record"}
    /\ wf' = [wf EXCEPT ![r].pc = "ended", ![r].job = FailedJob(wf[r].target),
                        ![r].faulted = TRUE]
    /\ UNCHANGED <<config, feedbackLogs, documents, history, requests>>
    /\ UNCHANGED <<ledgerVars, selVars, evalVars, ruleVars>>

\* What the caller is shown of a job.
JobSummary(job) ==
    [documentId |-> job.documentId, status |-> job.status,
     winnerCandidateId |-> job.winnerCandidateId, error |-> job.error,
     triggerFeedbackIds |-> job.triggerFeedbackIds,
     candidates |-> Len(job.candidates), evaluationResults |-> Len(job.evaluationResults)]

\* The job goes to the caller: runEvolution pushes it and takes the next
\* target or returns the list; evolveDocument returns it, or the route answers
\* 500 when processDocument threw.
ReturnJob(r) ==
    /\ wf[r].pc = "ended"
    /\ wf' = [wf EXCEPT ![r] =
                 IF wf[r].mode = "single"
                 THEN IF wf[r].job.status = "failed"
                      THEN Refused(@)
                      ELSE Answer(@, [status |-> "ok", jobs |-> <<JobSummary(wf[r].job)>>])
                 ELSE NextTarget([@ EXCEPT !.jobs = Append(@, JobSummary(wf[r].job))])]
    /\ UNCHANGED <<config, feedbackLogs, documents, history, requests>>
    /\ UNCHANGED <<ledgerVars, selVars, evalVars, ruleVars>>

----------------------------------------------------------------------------
(* Self-evolution adoption: SelfEvolutionWorkflow.evaluateAndAdoptRules, one *)
(* candidate of its loop a step.                                            *)

\* Most candidates of one call.
MaxSelfCandidates == 2

\* getCurrentGeneration: the highest generation among the document's rules, 0
\* without any.
CurrentGeneration(rows, d) ==
    LET gens == {rows[i].generation : i \in {j \in DOMAIN rows : rows[j].document_id = d}}
    IN IF gens = {} THEN 0 ELSE CHOOSE g \in gens : \A h \in gens : h <= g

\* One job from evaluateAndAdoptRules on: the generation its rules get, its
\* config, the number of its candidates, what became of each so far, the
\* rules createRule returned, and job.status.
IdleSelfEvo == [pc |-> "idle", nextGeneration |-> 0,
                config |-> DEFAULT_SELF_EVOLUTION_CONFIG, total |-> 0,
                candidates |-> <<>>, adoptedRules |-> <<>>, status |-> "pending"]

\* The loop after one candidate: attempted says that createRule was called,
\* score is the score of its row.  The insert fails on a store error, or on
\* the score check of the column.  After the last candidate the rules are
\* returned to run.
AfterCandidate(candidate, resultsBefore, resultsAfter, attempted, score, insertOk) ==
    LET accepted == insertOk /\ score >= MIN_SCORE /\ score <= MAX_SCORE
        created == attempted /\ accepted
    IN /\ ruleRows' =
              IF created
              THEN Append(ruleRows,
                          [document_id |-> "d1", generation |-> selfEvo.nextGeneration,
                           score |-> score, enabled |-> selfEvo.config.autoEnable,
                           origin |-> "self", rule_type |-> candidate.rule_type,
                           content |-> candidate.content])
              ELSE ruleRows
       /\ selfEvo' = [selfEvo EXCEPT
                         !.candidates =
                             Append(@, [resultsBefore |-> resultsBefore,
                                        resultsAfter |-> resultsAfter,
                                        accepted |-> accepted,
                                        adopted |-> created]),
                         !.adoptedRules =
                             IF created
                             THEN Append(@, [rule_type |-> candidate.rule_type,
                                             generation |-> selfEvo.nextGeneration])
                             ELSE @,
                         !.pc = IF Len(selfEvo.candidates) + 1 = selfEvo.total
                                THEN "history" ELSE "adopt",
                         !.status = IF Len(selfEvo.candidates) + 1 = selfEvo.total
                                    THEN "completed" ELSE @]

\* evaluateAndAdoptRules, one iteration: the questions are evaluated without
\* and with the candidate, and createRule is called when the rate reaches
\* config.minImprovementRate.
EvaluateAndAdoptRule(candidate, resultsBefore, resultsAfter, insertOk) ==
    /\ selfEvo.pc = "adopt"
    /\ Len(selfEvo.candidates) < selfEvo.total
    /\ AfterCandidate(candidate, resultsBefore, resultsAfter,
                      ReachesMinImprovementRate(resultsBefore, resultsAfter, selfEvo.config),
                      Lookup(SelfValues, <<resultsBefore, resultsAfter>>).score,
                      insertOk)
    /\ UNCHANGED <<rw, lookup, gen, weak>>
    /\ UNCHANGED <<ledgerVars, selVars, evalVars, orchVars>>

\* An evaluation of evaluateAndAdoptRules raises: the catch of run sets the
\* job to failed, and no history is recorded.
SelfEvolutionThrows ==
    /\ selfEvo.pc = "adopt"
    /\ selfEvo' = [selfEvo EXCEPT !.pc = "done", !.status = "failed"]
    /\ UNCHANGED <<ruleRows, rw, lookup, gen, weak>>
    /\ UNCHANGED <<ledgerVars, selVars, evalVars, orchVars>>

\* Scores of the evaluation results of a job, one record for each question.
Scores(a, b, c, d) == [accuracy |-> a, completeness |-> b, clarity |-> c, relevance |-> d]

\* Scores of one question without and with the current rules.
ResultScores ==
    {[without_rule |-> Scores(3, 3, 3, 3), with_rule |-> Scores(3, 3, 3, 4)],
     [without_rule |-> Scores(3, 3, 3, 3), with_rule |-> Scores(5, 5, 5, 4)],
     [without_rule |-> Scores(4, 4, 4, 4), with_rule |-> Scores(4, 4, 4, 5)],
     [without_rule |-> Scores(4, 4, 4, 4), with_rule |-> Scores(5, 5, 5, 4)],
     [without_rule |-> Scores(4, 4, 4, 4), with_rule |-> Scores(3, 3, 3, 4)]}

\* The sum of the four scores of a question.
ScoreSum(scores) == scores.accuracy + scores.completeness + scores.clarity + scores.relevance

\* calculateAverageImprovement: the mean of (avgWith - avgWithout) /
\* avgWithout over the results whose avgWithout is above 0; 0 without results
\* or without such a result.
CalculateAverageImprovement(results) ==
    LET Improvement(result) ==
            DDiv(DSub(DLit(ScoreSum(result.with_rule), 4),
                      DLit(ScoreSum(result.without_rule), 4)),
                 DLit(ScoreSum(result.without_rule), 4))
        Counted(result) == DLess(DZero, DLit(ScoreSum(result.without_rule), 4))
        sum[n \in 0..Len(results)] ==
            IF n = 0 THEN [total |-> DZero, count |-> 0]
            ELSE IF Counted(results[n])
                 THEN [total |-> DAdd(sum[n - 1].total, Improvement(results[n])),
                       count |-> sum[n - 1].count + 1]
                 ELSE sum[n - 1]
    IN IF sum[Len(results)].count > 0
       THEN DDiv(sum[Len(results)].total, DInt(sum[Len(results)].count))
       ELSE DZero

\* The evaluation results of the jobs that reach evaluateAndAdoptRules: a
\* weakness was identified, so the results are not empty.
SelfEvaluations ==
    {<<[without_rule |-> Scores(3, 3, 3, 3), with_rule |-> Scores(3, 3, 3, 4)]>>,
     <<[without_rule |-> Scores(3, 3, 3, 3), with_rule |-> Scores(5, 5, 5, 4)]>>,
     <<[without_rule |-> Scores(3, 3, 3, 3), with_rule |-> Scores(3, 3, 3, 4)],
       [without_rule |-> Scores(4, 4, 4, 4), with_rule |-> Scores(3, 3, 3, 4)]>>}

\* job.metrics.avg_improvement of each of them, computed once.
AverageImprovements ==
    {<<results, CalculateAverageImprovement(results)>> : results \in SelfEvaluations}

\* The row recordJobHistory inserts: the generation of the first adopted
\* rule, 0 without one, and job.metrics.avg_improvement as win_rate.
JobHistoryRow(adopted_rules, avg_improvement) ==
    [document_id |-> "d1",
     generation |-> IF Len(adopted_rules) > 0 THEN adopted_rules[1].generation ELSE 0,
     mutation_type |-> "SELF_EVOLUTION",
     win_rate |-> avg_improvement,
     trigger_feedback_ids |-> <<>>]

\* run, steps 8 to 10: avg_improvement is computed from the evaluation
\* results of step 4 and recordJobHistory inserts the row; it catches what
\* the insert raises and does not look at the error it returns.
RecordJobHistory(evaluationResults, outcome) ==
    /\ selfEvo.pc = "history"
    /\ history' = IF outcome = "ok"
                  THEN Append(history,
                              JobHistoryRow(selfEvo.adoptedRules,
                                            Lookup(AverageImprovements, evaluationResults)))
                  ELSE history
    /\ selfEvo' = [selfEvo EXCEPT !.pc = "done"]
    /\ UNCHANGED <<config, feedbackLogs, documents, wf, requests>>
    /\ UNCHANGED <<ruleRows, rw, lookup, gen, weak>>
    /\ UNCHANGED <<ledgerVars, selVars, evalVars>>

----------------------------------------------------------------------------
(* Rule evolution: InterpretationEvolutionWorkflow.run and runForDocument.   *)
(* The route builds a workflow for each request, so requests are served at  *)
(* the same time; one step per await.  A job that has ended rests in        *)
(* rw[r].job until ReturnRuleJob hands it to the caller.                    *)

\* Most candidates the mutation engine returns for one job.
MaxRuleCandidates == 2

\* Results evaluateCandidate may report for one candidate.
RuleResults ==
    {result \in InterpResults :
        \/ result.comparisons = 0
        \/ result.scoreB = <<8, 8, 8>> /\ result.wins2 \in {2, 3}
        \/ result.scoreB = <<5, 5, 5>> /\ result.wins2 = 4}

\* Candidates parseResponse may keep: a valid rule_type and a content.
RuleCandidates ==
    {[rule_type |-> "CONTEXT", content |-> "a"], [rule_type |-> "FORMAT", content |-> "a"]}

NoRuleTarget == [documentId |-> "none", feedbacks |-> <<>>]

NoRuleJob == [document_id |-> "none", trigger_feedback_ids |-> <<>>, status |-> "pending",
              candidates |-> <<>>, evaluation_results |-> <<>>, adopted_rules |-> <<>>,
              error |-> "none"]

\* One request: its config, the targets its loop has still to visit, its
\* current target and job, the jobs it has pushed, and its answer.
IdleRuleWorkflow == [pc |-> "idle", mode |-> "none",
                     config |-> DEFAULT_INTERPRETATION_EVOLUTION_CONFIG,
                     targets |-> <<>>, target |-> NoRuleTarget, job |-> NoRuleJob,
                     jobs |-> <<>>, nextGeneration |-> 0, nextResult |-> 1,
                     adoptedRules |-> <<>>, nextHistory |-> 1, response |-> NoResponse]

\* A rule-evolution request is in flight from its arrival to its answer.
RuleInFlight(r) == rw[r].pc \notin {"idle", "returned"}

\* No rule-evolution request is in flight.
RuleQuiet == \A r \in Reqs : ~RuleInFlight(r)

\* The request has its answer.
RuleAnswer(response) == [IdleRuleWorkflow EXCEPT !.pc = "returned", !.response = response]

\* The feedback queries of the rule path have no ORDER BY: the store answers
\* the rows in an order of its own.
Orderings(ids) ==
    {order \in [1..Cardinality(ids) -> ids] :
        \A m, n \in DOMAIN order : m # n => order[m] # order[n]}

\* The unprocessed BAD rows, of every document and of one.
BadRows ==
    {i \in DOMAIN feedbackLogs : feedbackLogs[i].rating = "BAD" /\ ~feedbackLogs[i].processed}

BadRowsOf(d) == {i \in BadRows : feedbackLogs[i].document_id = d}

RECURSIVE RuleTargetsOf(_, _, _)
RuleTargetsOf(docOrder, ids, cfg) ==
    IF docOrder = <<>> THEN <<>>
    ELSE LET d == Head(docOrder)
             docFeedbacks == SelectIds(ids, d)
             rest == RuleTargetsOf(Tail(docOrder), ids, cfg)
         IN IF Len(docFeedbacks) >= cfg.badFeedbackThreshold
            THEN <<[documentId |-> d, feedbacks |-> docFeedbacks]>> \o rest
            ELSE rest

\* processDocument up to its first await: the job is created pending and set
\* to generating.
NewRuleJob(target) ==
    [NoRuleJob EXCEPT !.document_id = target.documentId,
                      !.trigger_feedback_ids = target.feedbacks,
                      !.status = "generating"]

\* The loop of run: the next target's job begins, or the run returns.
NextRuleTarget(w) ==
    IF w.targets = <<>>
    THEN RuleAnswer([status |-> "ok", jobs |-> w.jobs])
    ELSE [w EXCEPT !.pc = "generate", !.target = Head(w.targets),
                   !.targets = Tail(w.targets), !.job = NewRuleJob(Head(w.targets)),
                   !.nextGeneration = 0, !.nextResult = 1,
                   !.adoptedRules = <<>>, !.nextHistory = 1]

\* POST /api/interpretation/evolution/run without documentId: run, up to the
\* feedback query of identifyEvolutionTargets.  limit is the number of
\* requests the callers make, cfg the config of the body.
RunRuleEvolution(limit, cfg) ==
    /\ requests < limit
    /\ requests' = requests + 1
    /\ rw' = [rw EXCEPT ![requests + 1] =
                 [IdleRuleWorkflow EXCEPT !.pc = "query", !.mode = "batch",
                                          !.config = FullConfig(cfg)]]
    /\ UNCHANGED <<config, feedbackLogs, documents, history, wf, ruleRows, selfEvo, lookup, gen, weak>>
    /\ UNCHANGED <<ledgerVars, selVars, evalVars>>

\* identifyEvolutionTargets of the rule path: the unprocessed BAD rows in the
\* order the store answers them, grouped by document; a document is a target
\* when it has at least badFeedbackThreshold of them.  A failed query gives
\* none.
IdentifyRuleTargets(r, queryOk, order) ==
    /\ rw[r].pc = "query"
    /\ order \in Orderings(BadRows)
    /\ LET targets == IF queryOk
                      THEN RuleTargetsOf(DocumentOrder(order, {}), order, rw[r].config)
                      ELSE <<>>
       IN rw' = [rw EXCEPT ![r] = NextRuleTarget([@ EXCEPT !.targets = targets])]
    /\ UNCHANGED <<ruleRows, selfEvo, lookup, gen, weak>>
    /\ UNCHANGED <<ledgerVars, selVars, evalVars, orchVars>>

\* POST /api/interpretation/evolution/run with documentId: runForDocument, up
\* to its feedback query.
RunForDocument(limit, d, cfg) ==
    /\ requests < limit
    /\ requests' = requests + 1
    /\ rw' = [rw EXCEPT ![requests + 1] =
                 [IdleRuleWorkflow EXCEPT !.pc = "select", !.mode = "single",
                                          !.config = FullConfig(cfg),
                                          !.target = [NoRuleTarget EXCEPT !.documentId = d]]]
    /\ UNCHANGED <<config, feedbackLogs, documents, history, wf, ruleRows, selfEvo, lookup, gen, weak>>
    /\ UNCHANGED <<ledgerVars, selVars, evalVars>>

\* runForDocument: the document's unprocessed BAD rows are the target;
\* without any, or when the query fails, the method returns null and the
\* route answers with no jobs.
SelectDocumentFeedbacks(r, queryOk, order) ==
    /\ rw[r].pc = "select"
    /\ order \in Orderings(BadRowsOf(rw[r].target.documentId))
    /\ LET target == [rw[r].target EXCEPT !.feedbacks = order]
       IN rw' = [rw EXCEPT ![r] =
                    IF ~queryOk \/ order = <<>>
                    THEN RuleAnswer([status |-> "ok", jobs |-> <<>>])
                    ELSE [@ EXCEPT !.pc = "generate", !.target = target,
                                   !.job = NewRuleJob(target)]]
    /\ UNCHANGED <<ruleRows, selfEvo, lookup, gen, weak>>
    /\ UNCHANGED <<ledgerVars, selVars, evalVars, orchVars>>

\* processDocument, steps 1 and 2: a document without content throws, which
\* the catch turns into a failed job; no candidates complete the job at once;
\* otherwise the job is evaluating.
GenerateRuleCandidates(r, docOk, candidates) ==
    /\ rw[r].pc = "generate"
    /\ rw' = [rw EXCEPT ![r] =
                 IF ~docOk
                 THEN [@ EXCEPT !.pc = "ended", !.job.status = "failed",
                                !.job.error = "error"]
                 ELSE IF candidates = <<>>
                 THEN [@ EXCEPT !.pc = "ended", !.job.status = "completed"]
                 ELSE [@ EXCEPT !.pc = "evaluate", !.job.candidates = candidates,
                                !.job.status = "evaluating"]]
    /\ UNCHANGED <<ruleRows, selfEvo, lookup, gen, weak>>
    /\ UNCHANGED <<ledgerVars, selVars, evalVars, orchVars>>

\* processDocument, steps 3 and 4: one result for each candidate, in the
\* order of the candidates.
EvaluateRuleCandidates(r, results) ==
    /\ rw[r].pc = "evaluate"
    /\ DOMAIN results = DOMAIN rw[r].job.candidates
    /\ rw' = [rw EXCEPT ![r].pc = "generation", ![r].job.evaluation_results = results]
    /\ UNCHANGED <<ruleRows, selfEvo, lookup, gen, weak>>
    /\ UNCHANGED <<ledgerVars, selVars, evalVars, orchVars>>

\* processDocument, step 5, its first lines: nextGeneration is read once.
GetCurrentGeneration(r, readOk) ==
    /\ rw[r].pc = "generation"
    /\ rw' = [rw EXCEPT ![r].pc = "adopt",
                        ![r].nextGeneration =
                            (IF readOk
                             THEN CurrentGeneration(ruleRows, rw[r].target.documentId)
                             ELSE 0) + 1]
    /\ UNCHANGED <<ruleRows, selfEvo, lookup, gen, weak>>
    /\ UNCHANGED <<ledgerVars, selVars, evalVars, orchVars>>

\* The rule row createRule inserts for a candidate and the score of its
\* result.
RuleRowOf(candidate, score, d, generation, cfg) ==
    [document_id |-> d, generation |-> generation, score |-> score,
     enabled |-> cfg.autoEnable, origin |-> "feedback",
     rule_type |-> candidate.rule_type, content |-> candidate.content]

\* The adoption loop after one result: created says that createRule returned
\* a rule, row is the row it inserted.  After the last result the job gets its
\* adopted rules.
AfterRuleCandidate(r, created, row) ==
    LET i == rw[r].nextResult
        adopted == IF created
                   THEN Append(rw[r].adoptedRules,
                               [rule_type |-> row.rule_type, content |-> row.content,
                                generation |-> row.generation])
                   ELSE rw[r].adoptedRules
        last == i = Len(rw[r].job.evaluation_results)
    IN /\ ruleRows' = IF created THEN Append(ruleRows, row) ELSE ruleRows
       /\ rw' = [rw EXCEPT ![r].nextResult = i + 1,
                           ![r].adoptedRules = adopted,
                           ![r].pc = IF last THEN "mark" ELSE "adopt",
                           ![r].job.adopted_rules = IF last THEN adopted ELSE @]

\* processDocument, step 5, one iteration of its loop: createRule for a
\* result whose win rate reaches the minimum; a failed insert returns null and
\* the loop goes on.
AdoptRuleCandidate(r, insertOk) ==
    /\ rw[r].pc = "adopt"
    /\ AfterRuleCandidate(r,
           /\ ReachesMinWinRate(rw[r].job.evaluation_results[rw[r].nextResult],
                                rw[r].config)
           /\ insertOk,
           RuleRowOf(rw[r].job.candidates[rw[r].nextResult],
                     Lookup(ResultValues,
                            rw[r].job.evaluation_results[rw[r].nextResult]).score,
                     rw[r].target.documentId, rw[r].nextGeneration, rw[r].config))
    /\ UNCHANGED <<selfEvo, lookup, gen, weak>>
    /\ UNCHANGED <<ledgerVars, selVars, evalVars, orchVars>>

\* markFeedbacksProcessed of the rule path: every trigger row of the target.
\* recordEvolutionHistory awaits nothing when no rule was adopted, and the
\* job is completed.
MarkRuleFeedbacksProcessed(r, outcome) ==
    /\ rw[r].pc = "mark"
    /\ feedbackLogs' = IF outcome = "ok"
                       THEN MarkProcessed(feedbackLogs, rw[r].target.feedbacks)
                       ELSE feedbackLogs
    /\ rw' = IF rw[r].job.adopted_rules = <<>>
             THEN [rw EXCEPT ![r].pc = "ended", ![r].job.status = "completed"]
             ELSE [rw EXCEPT ![r].pc = "record", ![r].nextHistory = 1]
    /\ UNCHANGED <<config, documents, history, wf, requests, ruleRows, selfEvo, lookup, gen, weak>>
    /\ UNCHANGED <<ledgerVars, selVars, evalVars>>

\* job.evaluation_results.find: the first result whose candidate has the
\* rule's rule_type and content, 0 when there is none.
FindResult(job, rule) ==
    LET found == {i \in DOMAIN job.evaluation_results :
                     /\ job.candidates[i].rule_type = rule.rule_type
                     /\ job.candidates[i].content = rule.content}
    IN IF found = {} THEN 0 ELSE CHOOSE i \in found : \A j \in found : i <= j

\* `INTERPRETATION_${rule.rule_type}`
RuleMutationType(rule_type) ==
    CASE rule_type = "CONTEXT" -> "INTERPRETATION_CONTEXT"
      [] rule_type = "CLARIFICATION" -> "INTERPRETATION_CLARIFICATION"
      [] rule_type = "FORMAT" -> "INTERPRETATION_FORMAT"
      [] rule_type = "MISUNDERSTANDING" -> "INTERPRETATION_MISUNDERSTANDING"
      [] rule_type = "RELATED" -> "INTERPRETATION_RELATED"

\* The history row of one adopted rule; win_rate is result?.win_rate || 0.
RuleHistoryRow(job, rule, win_rate) ==
    [document_id |-> job.document_id,
     generation |-> rule.generation,
     mutation_type |-> RuleMutationType(rule.rule_type),
     win_rate |-> win_rate,
     trigger_feedback_ids |-> job.trigger_feedback_ids]

\* The history rows of a job whose inserts all take effect.
RuleHistoryRows(job) ==
    [n \in DOMAIN job.adopted_rules |->
        RuleHistoryRow(job, job.adopted_rules[n],
                       IF FindResult(job, job.adopted_rules[n]) = 0 THEN DZero
                       ELSE Lookup(ResultValues,
                                   job.evaluation_results[
                                       FindResult(job, job.adopted_rules[n])]).win_rate)]

\* recordEvolutionHistory of the rule path, one iteration of its loop: the
\* insert for one adopted rule, whose error is not looked at.  After the last
\* one the job is completed.
RecordRuleEvolutionHistory(r, outcome) ==
    /\ rw[r].pc = "record"
    /\ history' = IF outcome = "ok"
                  THEN Append(history, RuleHistoryRows(rw[r].job)[rw[r].nextHistory])
                  ELSE history
    /\ rw' = IF rw[r].nextHistory = Len(rw[r].job.adopted_rules)
             THEN [rw EXCEPT ![r].pc = "ended", ![r].job.status = "completed"]
             ELSE [rw EXCEPT ![r].nextHistory = @ + 1]
    /\ UNCHANGED <<config, feedbackLogs, documents, wf, requests, ruleRows, selfEvo, lookup, gen, weak>>
    /\ UNCHANGED <<ledgerVars, selVars, evalVars>>

\* A store call of processDocument raises instead of returning: the catch
\* sets the job to failed with the error's message.  createRule and
\* getCurrentGeneration catch what they raise themselves.
RuleProcessDocumentThrows(r) ==
    /\ rw[r].pc \in {"evaluate", "mark", "record"}
    /\ rw' = [rw EXCEPT ![r].pc = "ended", ![r].job.status = "failed",
                        ![r].job.error = "error"]
    /\ UNCHANGED <<ruleRows, selfEvo, lookup, gen, weak>>
    /\ UNCHANGED <<ledgerVars, selVars, evalVars, orchVars>>

\* What the route shows of a job.
RuleJobSummary(job) ==
    [document_id |-> job.document_id, status |-> job.status,
     candidates_count |-> Len(job.candidates),
     adopted_rules_count |-> Len(job.adopted_rules), error |-> job.error]

\* The job goes to the caller: run pushes it and takes the next target or
\* returns the list; runForDocument returns it.
ReturnRuleJob(r) ==
    /\ rw[r].pc = "ended"
    /\ rw' = [rw EXCEPT ![r] =
                 IF rw[r].mode = "single"
                 THEN RuleAnswer([status |-> "ok", jobs |-> <<RuleJobSummary(rw[r].job)>>])
                 ELSE NextRuleTarget([@ EXCEPT !.jobs = Append(@, RuleJobSummary(rw[r].job))])]
    /\ UNCHANGED <<ruleRows, selfEvo, lookup, gen, weak>>
    /\ UNCHANGED <<ledgerVars, selVars, evalVars, orchVars>>

----------------------------------------------------------------------------
(* Rule lookup: InterpretationService.getApplicableRules.  A trigger pattern *)
(* and a query are sequences of characters; "." in a pattern stands for any  *)
(* character and "(" makes the pattern an invalid regular expression.        *)

\* Most rows of the rules table.
MaxRuleRows == 3

\* No trigger_pattern: null.
NoPattern == <<>>

TriggerPatterns == {NoPattern, <<"a">>, <<"b", ".">>, <<"(", "A">>}
Queries == {<<"A", "c">>, <<"c", "b", "c">>, <<"c", "(", "a">>}
LookupScores == {40, 60}

NoLookup == [called |-> FALSE, documentId |-> "none", query |-> <<>>,
             outcome |-> "none", rules |-> <<>>]

\* String.prototype.toLowerCase, character by character.
LowerChar(c) == CASE c = "A" -> "a" [] c = "B" -> "b" [] c = "C" -> "c" [] OTHER -> c

ToLowerCase(str) == [i \in DOMAIN str |-> LowerChar(str[i])]

\* String.prototype.includes
Includes(str, part) ==
    \E off \in 0..(Len(str) - Len(part)) :
        \A k \in DOMAIN part : str[off + k] = part[k]

\* new RegExp(pattern, 'i') throws for an unbalanced parenthesis.
ValidRegExp(pattern) == \A k \in DOMAIN pattern : pattern[k] # "("

\* new RegExp(pattern, 'i').test(query): the pattern is found somewhere in the
\* query, letters compared without case and "." taken for any character.
RegExpTest(pattern, query) ==
    \E off \in 0..(Len(query) - Len(pattern)) :
        \A k \in DOMAIN pattern :
            \/ pattern[k] = "."
            \/ LowerChar(pattern[k]) = LowerChar(query[off + k])

\* The filter of getApplicableRules on one rule: no pattern always applies; a
\* pattern is tested as a regular expression, or as a keyword when it is not
\* a valid one.
TriggerApplies(pattern, query) ==
    IF pattern = NoPattern THEN TRUE
    ELSE IF ValidRegExp(pattern) THEN RegExpTest(pattern, query)
    ELSE Includes(ToLowerCase(query), ToLowerCase(pattern))

\* A row selection that does not look at the enabled flag.
RowsOfDocument(table, d) ==
    {i \in DOMAIN table : table[i].document_id = d}

\* .eq('document_id', documentId).eq('enabled', true)
EnabledRowsOfDocument(table, d) ==
    {i \in DOMAIN table : table[i].document_id = d /\ table[i].enabled}

\* .order('score', { ascending: false }): the orders the store may return the
\* selected rows in; rows of equal score come in any order.
OrderedByScore(table, ids) ==
    {ord \in [1..Cardinality(ids) -> ids] :
        /\ \A i, j \in DOMAIN ord : i # j => ord[i] # ord[j]
        /\ \A i, j \in DOMAIN ord : i < j => table[ord[i]].score >= table[ord[j]].score}

\* rules.filter(...) on the ordered rows.
RECURSIVE FilterByTrigger(_, _, _)
FilterByTrigger(table, ord, query) ==
    IF ord = <<>> THEN <<>>
    ELSE IF TriggerApplies(table[Head(ord)].trigger_pattern, query)
         THEN <<Head(ord)>> \o FilterByTrigger(table, Tail(ord), query)
         ELSE FilterByTrigger(table, Tail(ord), query)

\* getApplicableRules: the rows in the order returned, or none when the
\* store reports an error or the call raises.
GetApplicableRules(d, query, outcome) ==
    /\ \E ord \in OrderedByScore(ruleRows, EnabledRowsOfDocument(ruleRows, d)) :
           lookup' = [called |-> TRUE, documentId |-> d, query |-> query,
                      outcome |-> outcome,
                      rules |-> IF outcome = "ok"
                                THEN FilterByTrigger(ruleRows, ord, query)
                                ELSE <<>>]
    /\ UNCHANGED <<ruleRows, selfEvo, rw, gen, weak>>
    /\ UNCHANGED <<ledgerVars, selVars, evalVars, orchVars>>

----------------------------------------------------------------------------
(* Candidate generation: MutationEngine.generateMutations, one prompt of     *)
(* MUTATION_PROMPTS a step.  gen.service holds, for each prompt, what the    *)
(* completion service answers to successive calls with it.                   *)

\* Calls of the completion service one prompt is followed over.
MaxAttempts == 2

\* What the completion service answers to one call.
CallOutcomes == {"ok", "RateLimited", "Timeout"}

NoGeneration == [pc |-> "idle", service |-> <<>>, next |-> 1, calls |-> <<>>,
                 candidates |-> <<>>, raised |-> FALSE]

\* VertexGeminiClient.generateContent: one call of the model; its failure is
\* thrown to the caller.
GenerateContent(answers, made) == answers[made + 1]

\* A failure that ends the call with an exception.
RaiseMutation(g) == [g EXCEPT !.pc = "done", !.raised = TRUE]

\* The catch of generateMutations: the failure is logged and the loop goes on
\* with the next prompt.
SkipMutation(g) == [g EXCEPT !.next = @ + 1]

\* generateMutations, one iteration: generateSingleMutation calls the
\* completion service once; a candidate of the prompt's type is pushed when
\* the call succeeds.
GenerateSingleMutation ==
    /\ gen.pc = "running" /\ gen.next <= Len(MutationTypes)
    /\ LET i == gen.next
           answer == GenerateContent(gen.service[i], gen.calls[i])
           called == [gen EXCEPT !.calls[i] = @ + 1]
       IN gen' = IF answer = "ok"
                 THEN [called EXCEPT !.next = @ + 1,
                                     !.candidates = Append(@, [id |-> CandidateIds[i],
                                                               mutationType |-> MutationTypes[i]])]
                 ELSE SkipMutation(called)
    /\ UNCHANGED <<ruleRows, selfEvo, rw, lookup, weak>>
    /\ UNCHANGED <<ledgerVars, selVars, evalVars, orchVars>>

\* generateMutations, after the loop: the candidates are returned.
ReturnMutations ==
    /\ gen.pc = "running" /\ gen.next > Len(MutationTypes)
    /\ gen' = [gen EXCEPT !.pc = "done"]
    /\ UNCHANGED <<ruleRows, selfEvo, rw, lookup, weak>>
    /\ UNCHANGED <<ledgerVars, selVars, evalVars, orchVars>>

\* processDocument, step 1, with the engine followed call by call: the job
\* goes on with the candidates generateMutations has returned.
AwaitMutations(r) ==
    /\ gen.pc = "done"
    /\ TakeCandidates(r, gen.candidates)
    /\ UNCHANGED <<ledgerVars, selVars, evalVars, ruleVars>>

----------------------------------------------------------------------------
(* Weakness analysis: SelfEvaluationEngine.identifyWeaknesses, one           *)
(* evaluation result a step, and                                             *)
(* SelfEvolutionWorkflow.generateRuleCandidatesFromWeaknesses, one weakness  *)
(* a step.  A question is the index of its evaluation result.                *)

\* Most evaluation results of one job.
MaxResults == 2

\* The fixed quality floor of identifyWeaknesses, 3.5.
QualityFloor == 350

\* What analyzeWeakness returns: a parsed weakness, or null when the call or
\* the parse fails.
NoWeakness == [type |-> "null", suggested_rule_type |-> "null", confidence |-> 0]

Analyses ==
    {NoWeakness} \cup [type : {"ambiguous", "incomplete"},
                       suggested_rule_type : {"CONTEXT", "FORMAT"},
                       confidence : {30, 80}]

NoAnalysis == [pc |-> "idle", config |-> DEFAULT_SELF_EVOLUTION_CONFIG,
               results |-> <<>>, next |-> 1, replies |-> <<>>,
               weaknesses |-> <<>>, returned |-> <<>>, nextWeakness |-> 1,
               candidates |-> <<>>, status |-> "pending"]

\* calculateAverageScore: the mean of the four scores.
CalculateAverageScore(scores) ==
    (100 * (scores.accuracy + scores.completeness + scores.clarity + scores.relevance)) \div 4

\* identifyWeaknesses, its first test: the without-rule average is below 3.5.
LowWithoutRule(result) ==
    CalculateAverageScore(result.without_rule) < QualityFloor

\* identifyWeaknesses, its second test: the with-rule average is below 3.5
\* and exceeds the without-rule average by less than
\* fullConfig.weaknessThreshold.
NoImprovement(result, cfg) ==
    /\ CalculateAverageScore(result.with_rule) < QualityFloor
    /\ CalculateAverageScore(result.with_rule) - CalculateAverageScore(result.without_rule)
           < cfg.weaknessThreshold

\* parseWeaknessResponse: the weakness of one question.
WeaknessOf(analysis, question) ==
    [type |-> analysis.type, suggested_rule_type |-> analysis.suggested_rule_type,
     confidence |-> analysis.confidence, affected_questions |-> <<question>>]

\* The weaknesses one evaluation result adds to the list.
WeaknessesOfResult(result, question, first, second, cfg) ==
    (IF LowWithoutRule(result) /\ first # NoWeakness
     THEN <<WeaknessOf(first, question)>> ELSE <<>>)
    \o (IF NoImprovement(result, cfg) /\ second # NoWeakness
        THEN <<WeaknessOf(second, question)>> ELSE <<>>)

\* consolidated.find(...): the place of the entry of the same type and
\* suggested rule type, 0 without one.
FindWeakness(consolidated, weakness) ==
    IF \E n \in DOMAIN consolidated :
           /\ consolidated[n].type = weakness.type
           /\ consolidated[n].suggested_rule_type = weakness.suggested_rule_type
    THEN CHOOSE n \in DOMAIN consolidated :
             /\ consolidated[n].type = weakness.type
             /\ consolidated[n].suggested_rule_type = weakness.suggested_rule_type
             /\ \A m \in 1..(n - 1) :
                    ~(/\ consolidated[m].type = weakness.type
                      /\ consolidated[m].suggested_rule_type = weakness.suggested_rule_type)
    ELSE 0

\* consolidateWeaknesses, its loop: a weakness joins the entry of its type and
\* suggested rule type, or becomes a new entry.
RECURSIVE MergeWeaknesses(_, _)
MergeWeaknesses(consolidated, weaknesses) ==
    IF weaknesses = <<>> THEN consolidated
    ELSE LET weakness == Head(weaknesses)
             n == FindWeakness(consolidated, weakness)
         IN IF n # 0
            THEN MergeWeaknesses(
                     [consolidated EXCEPT
                         ![n].affected_questions = @ \o weakness.affected_questions,
                         ![n].confidence = Max(@, weakness.confidence)],
                     Tail(weaknesses))
            ELSE MergeWeaknesses(Append(consolidated, weakness), Tail(weaknesses))

\* sort((a, b) => b.confidence - a.confidence): stable, highest first.
RECURSIVE SortByConfidence(_)
InsertByConfidence(sorted, weakness) ==
    LET before == {n \in DOMAIN sorted : sorted[n].confidence >= weakness.confidence}
        k == Cardinality(before)
    IN IF \A n \in DOMAIN sorted : n \in before <=> n <= k
       THEN SubSeq(sorted, 1, k) \o <<weakness>> \o SubSeq(sorted, k + 1, Len(sorted))
       ELSE LET first == CHOOSE n \in DOMAIN sorted :
                             /\ n \notin before
                             /\ \A m \in 1..(n - 1) : m \in before
            IN SubSeq(sorted, 1, first - 1) \o <<weakness>>
                   \o SubSeq(sorted, first, Len(sorted))

SortByConfidence(weaknesses) ==
    IF weaknesses = <<>> THEN <<>>
    ELSE InsertByConfidence(SortByConfidence(SubSeq(weaknesses, 1, Len(weaknesses) - 1)),
                            weaknesses[Len(weaknesses)])

\* A consolidation that merges nothing.
SortWeaknesses(weaknesses) == SortByConfidence(weaknesses)

\* consolidateWeaknesses
ConsolidateWeaknesses(weaknesses) == SortByConfidence(MergeWeaknesses(<<>>, weaknesses))

\* run after identifyWeaknesses: without a weakness the job is completed and
\* its history is recorded; otherwise the candidates are generated.
AfterIdentify(w) ==
    IF w.returned = <<>>
    THEN [w EXCEPT !.pc = "history", !.status = "completed"]
    ELSE [w EXCEPT !.pc = "generate", !.status = "generating_rules"]

\* identifyWeaknesses: one iteration of its loop, with what the two calls of
\* analyzeWeakness would return; after the last result, or without results,
\* the consolidated list is returned.
IdentifyWeaknesses(first, second) ==
    /\ weak.pc = "identify"
    /\ IF weak.results = <<>>
       THEN weak' = AfterIdentify([weak EXCEPT !.returned = ConsolidateWeaknesses(<<>>)])
       ELSE LET i == weak.next
                found == weak.weaknesses
                             \o WeaknessesOfResult(weak.results[i], i, first, second,
                                                   weak.config)
                last == i = Len(weak.results)
                w == [weak EXCEPT
                         !.next = i + 1,
                         !.replies = Append(@, [first |-> first, second |-> second]),
                         !.weaknesses = found,
                         !.returned = IF last THEN ConsolidateWeaknesses(found) ELSE @]
            IN weak' = IF last THEN AfterIdentify(w) ELSE w
    /\ UNCHANGED <<ruleRows, selfEvo, rw, lookup, gen>>
    /\ UNCHANGED <<ledgerVars, selVars, evalVars, orchVars>>

\* run, the branch weaknesses.length === 0: recordJobHistory inserts the row
\* of a job without adopted rules, whose avg_improvement is still 0.
RecordJobHistoryWithoutWeakness(outcome) ==
    /\ weak.pc = "history"
    /\ history' = IF outcome = "ok" THEN Append(history, JobHistoryRow(<<>>, DZero))
                  ELSE history
    /\ weak' = [weak EXCEPT !.pc = "done"]
    /\ UNCHANGED <<config, feedbackLogs, documents, wf, requests>>
    /\ UNCHANGED <<ruleRows, selfEvo, rw, lookup, gen>>
    /\ UNCHANGED <<ledgerVars, selVars, evalVars>>

\* What generateSpecificTypeCandidate makes of the service's reply: a
\* candidate of the reply's rule_type when that is a valid type, none when
\* the call fails or the reply is not a valid candidate.
RuleTypes == {"CONTEXT", "CLARIFICATION", "FORMAT", "MISUNDERSTANDING", "RELATED"}

Replies == {"none", "CONTEXT", "FORMAT", "OTHER"}

\* generateRuleCandidatesFromWeaknesses, one iteration: the candidate
\* generateSpecificTypeCandidate returns for the weakness, if any.
GenerateCandidateFromWeakness(reply) ==
    /\ weak.pc = "generate"
    /\ weak.nextWeakness <= Len(weak.returned)
    /\ LET n == weak.nextWeakness
       IN weak' = [weak EXCEPT
                      !.nextWeakness = n + 1,
                      !.candidates =
                          IF reply \in RuleTypes /\ weak.returned[n].affected_questions # <<>>
                          THEN Append(@, [weakness |-> n, rule_type |-> reply])
                          ELSE @]
    /\ UNCHANGED <<ruleRows, selfEvo, rw, lookup, gen>>
    /\ UNCHANGED <<ledgerVars, selVars, evalVars, orchVars>>

----------------------------------------------------------------------------
(* Specifications *)

OrchIdle ==
    /\ config = DEFAULT_EVOLUTION_CONFIG
    /\ feedbackLogs = <<>>
    /\ documents = [d \in Docs |-> [generation |-> 1]]
    /\ history = <<>>
    /\ wf = [r \in Reqs |-> IdleWorkflow]
    /\ requests = 0

RuleIdle ==
    /\ ruleRows = <<>>
    /\ selfEvo = IdleSelfEvo
    /\ rw = [r \in Reqs |-> IdleRuleWorkflow]
    /\ lookup = NoLookup
    /\ gen = NoGeneration
    /\ weak = NoAnalysis

LedgerIdle ==
    /\ rules = [r \in RuleIds |-> NoRule]
    /\ applications = <<>>
    /\ qaFeedback = [m \in MessageIds |-> <<>>]
    /\ eventLog = [r \in RuleIds |-> <<>>]
    /\ procs = [p \in ProcIds |-> IdleProc]
    /\ chat = IdleChat
    /\ calls = 0

SelIdle ==
    /\ selMargins = <<0, 0>>
    /\ selResults = <<>>
    /\ selWinners = <<NoWinner, NoWinner>>
    /\ adoptCounts = <<0, 0>>
    /\ selJobs = 0

EvalIdle == ev = IdleEval

\* Results and result lists the adoptions of the ledger behaviour draw from.
LedgerResults ==
    {result \in InterpResults :
        /\ result.wins2 \in {0, 3}
        /\ result.scoreB \in {<<0, 0, 0>>, <<8, 8, 8>>}}

LedgerResultLists == {<<4, 4, 4, 4, 4>>, <<8, 8, 8, 8, 8>>, <<11, 10, 10, 10, 10>>}

\* The chat and feedback routes over a ledger of one rule at 0.5, to which the
\* workflows may add a second.
LedgerInit ==
    /\ rules = [r \in RuleIds |->
                   IF r = "r1"
                   THEN [exists |-> TRUE, score |-> 50, enabled |-> TRUE, origin |-> "seed",
                         document_id |-> "d1"]
                   ELSE NoRule]
    /\ applications = <<>>
    /\ qaFeedback = [m \in MessageIds |-> <<>>]
    /\ eventLog = [r \in RuleIds |-> <<>>]
    /\ procs = [p \in ProcIds |-> IdleProc]
    /\ chat = IdleChat
    /\ calls = 0
    /\ SelIdle /\ EvalIdle /\ OrchIdle /\ RuleIdle

LedgerNext ==
    \/ \E sources \in ChatSources : PostChat(sources)
    \/ \E matching \in SUBSET RuleIds, order \in RuleLists : GetChatRules(matching, order)
    \/ \E saved \in BOOLEAN : AnswerChat(saved)
    \/ \E recorded \in BOOLEAN : RecordChatApplication(recorded)
    \/ DeleteSession
    \/ \E p \in ProcIds, m \in MessageIds, rating \in Ratings : PostFeedback(p, m, rating)
    \/ \E p \in ProcIds, saved \in BOOLEAN : SaveFeedback(p, saved)
    \/ \E p \in ProcIds : FetchApplication(p)
    \/ \E p \in ProcIds : MarkApplication(p)
    \/ \E p \in ProcIds : ReadScore(p)
    \/ \E p \in ProcIds : WriteScore(p)
    \/ \E r \in RuleIds, enabled \in BOOLEAN : PatchRule(r, enabled)
    \/ \E r \in RuleIds : DeleteRuleRoute(r)
    \/ \E r \in RuleIds, enabled \in BOOLEAN : SetRuleEnabled(r, enabled)
    \/ \E r \in RuleIds : DeleteRule(r)
    \/ \E r \in RuleIds, d \in Docs, result \in LedgerResults, cfg \in RuleRequestConfigs :
           AdoptEvaluatedRule(r, d, result, cfg)
    \/ \E r \in RuleIds, d \in Docs, resultsBefore \in LedgerResultLists,
          resultsAfter \in LedgerResultLists, cfg \in SelfRequestConfigs :
           AdoptSelfEvolvedRule(r, d, resultsBefore, resultsAfter, cfg)

SpecLedger == LedgerInit /\ [][LedgerNext]_vars

ConcInit ==
    /\ \E s \in SeedScores :
           rules = [r \in RuleIds |->
                       [exists |-> TRUE, score |-> IF r = "r1" THEN s ELSE 50,
                        enabled |-> TRUE, origin |-> "seed",
                        document_id |-> IF r = "r1" THEN "d1" ELSE "d2"]]
    /\ applications = <<>>
    /\ qaFeedback = [m \in MessageIds |-> <<>>]
    /\ eventLog = [r \in RuleIds |-> <<>>]
    /\ procs = [p \in ProcIds |-> IdleProc]
    /\ chat = IdleChat
    /\ calls = 0
    /\ SelIdle /\ EvalIdle /\ OrchIdle /\ RuleIdle

ConcNext ==
    \/ \E m \in MessageIds, ruleIds \in RuleLists : RecordApplication(m, ruleIds)
    \/ \E p \in ProcIds, m \in MessageIds, rating \in Ratings : UpdateRuleScores(p, m, rating)
    \/ \E p \in ProcIds : FetchApplication(p)
    \/ \E p \in ProcIds : MarkApplication(p)
    \/ \E p \in ProcIds : ReadScore(p)
    \/ \E p \in ProcIds : WriteScore(p)

SpecConc == ConcInit /\ [][ConcNext]_vars

SelInit ==
    /\ \E m1 \in Margins, m2 \in Margins : m1 <= m2 /\ selMargins = <<m1, m2>>
    /\ selResults = <<>>
    /\ selWinners = <<NoWinner, NoWinner>>
    /\ adoptCounts = <<0, 0>>
    /\ selJobs = 0
    /\ LedgerIdle /\ EvalIdle /\ OrchIdle /\ RuleIdle

SelNext == \E results \in ResultLists : SelectJob(results)

SpecSelect == SelInit /\ [][SelNext]_vars

EvalInit ==
    /\ \E e \in {"document", "interpretation"}, k \in 0..MaxQuestions :
           ev = [IdleEval EXCEPT !.engine = e, !.pc = "running", !.questions = k]
    /\ LedgerIdle /\ SelIdle /\ OrchIdle /\ RuleIdle

EvalNext ==
    \/ \E kind \in OutcomeKinds, judged \in JudgeScores : DocCompare(kind, judged)
    \/ DocFinish
    \/ \E kind \in OutcomeKinds, judged \in JudgeScores : InterpCompare(kind, judged)
    \/ InterpFinish

SpecEval == EvalInit /\ [][EvalNext]_vars

SelfInit ==
    /\ ruleRows = <<>>
    /\ \E cfg \in {c \in SelfRequestConfigs : "weaknessThreshold" \notin DOMAIN c},
          total \in 0..MaxSelfCandidates :
           selfEvo = [IdleSelfEvo EXCEPT !.pc = IF total = 0 THEN "history" ELSE "adopt",
                                         !.nextGeneration = CurrentGeneration(<<>>, "d1") + 1,
                                         !.config = FullSelfConfig(cfg),
                                         !.total = total,
                                         !.status = IF total = 0 THEN "completed"
                                                    ELSE "generating_rules"]
    /\ rw = [r \in Reqs |-> IdleRuleWorkflow]
    /\ lookup = NoLookup
    /\ gen = NoGeneration
    /\ weak = NoAnalysis
    /\ LedgerIdle /\ SelIdle /\ EvalIdle /\ OrchIdle

SelfNext ==
    \/ \E candidate \in RuleCandidates,
          resultsBefore \in SelfResultLists, resultsAfter \in SelfResultLists,
          insertOk \in BOOLEAN :
           EvaluateAndAdoptRule(candidate, resultsBefore, resultsAfter, insertOk)
    \/ SelfEvolutionThrows
    \/ \E evaluationResults \in SelfEvaluations, outcome \in StoreOutcomes :
           RecordJobHistory(evaluationResults, outcome)

SpecSelf == SelfInit /\ [][SelfNext]_vars

\* The candidate lists the mutation engine may return for one job.
RuleCandidateLists == UNION {[1..n -> RuleCandidates] : n \in 0..MaxRuleCandidates}

\* Rule-evolution requests that are served one at a time.
RuleInit ==
    /\ config = DEFAULT_EVOLUTION_CONFIG
    /\ \E nBad \in 0..MaxBad, nBad2 \in 0..MaxBadOther :
           feedbackLogs = RowsOf("d1", 0, nBad) \o RowsOf("d2", 0, nBad2)
    /\ documents = [d \in Docs |-> [generation |-> 1]]
    /\ history = <<>>
    /\ wf = [r \in Reqs |-> IdleWorkflow]
    /\ requests = 0
    /\ ruleRows \in {<<>>, <<[document_id |-> "d1", generation |-> 1, score |-> 50,
                              enabled |-> TRUE, origin |-> "feedback",
                              rule_type |-> "CONTEXT", content |-> "a"]>>}
    /\ selfEvo = IdleSelfEvo
    /\ rw = [r \in Reqs |-> IdleRuleWorkflow]
    /\ lookup = NoLookup
    /\ gen = NoGeneration
    /\ weak = NoAnalysis
    /\ LedgerIdle /\ SelIdle /\ EvalIdle

RuleNext ==
    \/ \E cfg \in RuleRequestConfigs : RuleQuiet /\ RunRuleEvolution(MaxRequests, cfg)
    \/ \E d \in Docs \cup {"unknown"}, cfg \in RuleRequestConfigs :
           RuleQuiet /\ RunForDocument(MaxRequests, d, cfg)
    \/ \E r \in Reqs :
           /\ rw[r].pc = "query"
           /\ \E queryOk \in BOOLEAN, order \in Orderings(BadRows) :
                  IdentifyRuleTargets(r, queryOk, order)
    \/ \E r \in Reqs :
           /\ rw[r].pc = "select"
           /\ \E queryOk \in BOOLEAN,
                 order \in Orderings(BadRowsOf(rw[r].target.documentId)) :
                  SelectDocumentFeedbacks(r, queryOk, order)
    \/ \E r \in Reqs, docOk \in BOOLEAN, candidates \in RuleCandidateLists :
           GenerateRuleCandidates(r, docOk, candidates)
    \/ \E r \in Reqs :
           \E results \in [1..Len(rw[r].job.candidates) -> RuleResults] :
               EvaluateRuleCandidates(r, results)
    \/ \E r \in Reqs, readOk \in BOOLEAN : GetCurrentGeneration(r, readOk)
    \/ \E r \in Reqs, insertOk \in BOOLEAN : AdoptRuleCandidate(r, insertOk)
    \/ \E r \in Reqs, outcome \in StoreOutcomes : MarkRuleFeedbacksProcessed(r, outcome)
    \/ \E r \in Reqs, outcome \in StoreOutcomes : RecordRuleEvolutionHistory(r, outcome)
    \/ \E r \in Reqs : RuleProcessDocumentThrows(r)
    \/ \E r \in Reqs : ReturnRuleJob(r)

SpecRule == RuleInit /\ [][RuleNext]_vars

\* Rule-evolution requests served at the same time: a request may arrive
\* while others are in flight.  The store calls succeed, and each candidate
\* wins every comparison or none.
RuleRunsResults == {result \in RuleResults : result.wins2 \in {2, 4}}


RuleRunsCandidates ==
    {candidates \in RuleCandidateLists :
        \A n \in DOMAIN candidates : candidates[n].rule_type = "CONTEXT"}

RuleRunsInit ==
    /\ config = DEFAULT_EVOLUTION_CONFIG
    /\ feedbackLogs = RowsOf("d1", 0, 2)
    /\ documents = [d \in Docs |-> [generation |-> 1]]
    /\ history = <<>>
    /\ wf = [r \in Reqs |-> IdleWorkflow]
    /\ requests = 0
    /\ ruleRows = <<>>
    /\ selfEvo = IdleSelfEvo
    /\ rw = [r \in Reqs |-> IdleRuleWorkflow]
    /\ lookup = NoLookup
    /\ gen = NoGeneration
    /\ weak = NoAnalysis
    /\ LedgerIdle /\ SelIdle /\ EvalIdle

RuleRunsNext ==
    \/ RunRuleEvolution(MaxRuns, [badFeedbackThreshold |-> 2])
    \/ RunForDocument(MaxRuns, "d1", <<>>)
    \/ \E r \in Reqs :
           /\ rw[r].pc = "query"
           /\ \E order \in Orderings(BadRows) : IdentifyRuleTargets(r, TRUE, order)
    \/ \E r \in Reqs :
           /\ rw[r].pc = "select"
           /\ \E order \in Orderings(BadRowsOf(rw[r].target.documentId)) :
                  SelectDocumentFeedbacks(r, TRUE, order)
    \/ \E r \in Reqs, candidates \in RuleRunsCandidates :
           GenerateRuleCandidates(r, TRUE, candidates)
    \/ \E r \in Reqs :
           \E results \in [1..Len(rw[r].job.candidates) -> RuleRunsResults] :
               EvaluateRuleCandidates(r, results)
    \/ \E r \in Reqs : GetCurrentGeneration(r, TRUE)
    \/ \E r \in Reqs : AdoptRuleCandidate(r, TRUE)
    \/ \E r \in Reqs : MarkRuleFeedbacksProcessed(r, "ok")
    \/ \E r \in Reqs : RecordRuleEvolutionHistory(r, "ok")
    \/ \E r \in Reqs : ReturnRuleJob(r)

SpecRuleRuns == RuleRunsInit /\ [][RuleRunsNext]_vars

LookupRows ==
    [document_id : Docs, generation : {1}, score : LookupScores, enabled : BOOLEAN,
     origin : {"feedback"}, trigger_pattern : TriggerPatterns]

LookupInit ==
    /\ \E n \in 0..MaxRuleRows : ruleRows \in [1..n -> LookupRows]
    /\ selfEvo = IdleSelfEvo
    /\ rw = [r \in Reqs |-> IdleRuleWorkflow]
    /\ lookup = NoLookup
    /\ gen = NoGeneration
    /\ weak = NoAnalysis
    /\ LedgerIdle /\ SelIdle /\ EvalIdle /\ OrchIdle

LookupNext ==
    \E d \in Docs, query \in Queries, outcome \in StoreOutcomes :
        GetApplicableRules(d, query, outcome)

SpecLookup == LookupInit /\ [][LookupNext]_vars

\* The job of a batch run on document d1, whose three BAD rows are its
\* trigger, as processDocument calls generateMutations.
MutateTarget == [documentId |-> "d1", feedbacks |-> <<3, 2, 1>>, currentGeneration |-> 1]

MutateInit ==
    /\ \E service \in [1..Len(MutationTypes) -> [1..MaxAttempts -> CallOutcomes]] :
           gen = [NoGeneration EXCEPT !.pc = "running", !.service = service,
                                      !.calls = [i \in 1..Len(MutationTypes) |-> 0]]
    /\ ruleRows = <<>>
    /\ selfEvo = IdleSelfEvo
    /\ rw = [r \in Reqs |-> IdleRuleWorkflow]
    /\ lookup = NoLookup
    /\ weak = NoAnalysis
    /\ config \in {c \in Configs : c.minWinMargin = DefaultMinWinMargin}
    /\ feedbackLogs = RowsOf("d1", 0, 3)
    /\ documents = [d \in Docs |-> [generation |-> 1]]
    /\ history = <<>>
    /\ wf = [r \in Reqs |->
                 IF r = 1
                 THEN NextTarget([IdleWorkflow EXCEPT !.mode = "batch",
                                                      !.eligible = <<"d1">>,
                                                      !.identified = <<MutateTarget>>,
                                                      !.targets = <<MutateTarget>>])
                 ELSE IdleWorkflow]
    /\ requests = 1
    /\ LedgerIdle /\ SelIdle /\ EvalIdle

MutateNext ==
    \/ GenerateSingleMutation
    \/ ReturnMutations
    \/ \E r \in Reqs : AwaitMutations(r)
    \/ \E r \in Reqs, goodOk \in BOOLEAN : PrepareSampleQuestions(r, goodOk)
    \/ \E r \in Reqs :
           \E outcome \in [1..Len(wf[r].job.candidates) ->
                              BatchOutcomes(wf[r].sampleQuestions)] :
               EvaluateCandidates(r, outcome)
    \/ \E r \in Reqs, outcome \in StoreOutcomes : UpdateDocument(r, outcome)
    \/ \E r \in Reqs, outcome \in StoreOutcomes : MarkFeedbacksProcessed(r, outcome)
    \/ \E r \in Reqs, outcome \in StoreOutcomes : RecordEvolutionHistory(r, outcome)
    \/ \E r \in Reqs : ProcessDocumentThrows(r)
    \/ \E r \in Reqs : ReturnJob(r)

SpecMutate == MutateInit /\ [][MutateNext]_vars

WeakInit ==
    /\ \E n \in 0..MaxResults, cfg \in {c \in SelfRequestConfigs :
                                             DOMAIN c \subseteq {"weaknessThreshold"}} :
           \E results \in [1..n -> ResultScores] :
               weak = [NoAnalysis EXCEPT !.pc = "identify", !.config = FullSelfConfig(cfg),
                                         !.results = results, !.status = "evaluating"]
    /\ ruleRows = <<>>
    /\ selfEvo = IdleSelfEvo
    /\ rw = [r \in Reqs |-> IdleRuleWorkflow]
    /\ lookup = NoLookup
    /\ gen = NoGeneration
    /\ LedgerIdle /\ SelIdle /\ EvalIdle /\ OrchIdle

WeakNext ==
    \/ \E first \in Analyses, second \in Analyses : IdentifyWeaknesses(first, second)
    \/ \E outcome \in StoreOutcomes : RecordJobHistoryWithoutWeakness(outcome)
    \/ \E reply \in Replies : GenerateCandidateFromWeakness(reply)

SpecWeak == WeakInit /\ [][WeakNext]_vars

\* Evolution requests that are served one at a time: each arrives when the
\* one before has its answer.
Init ==
    /\ config \in Configs
    /\ \E nBad \in 0..MaxBad, nGood \in 0..MaxGood, nBad2 \in 0..MaxBadOther :
           feedbackLogs = RowsOf("d1", nGood, nBad) \o RowsOf("d2", 0, nBad2)
    /\ documents = [d \in Docs |-> [generation |-> 1]]
    /\ history = <<>>
    /\ wf = [r \in Reqs |-> IdleWorkflow]
    /\ requests = 0
    /\ LedgerIdle /\ SelIdle /\ EvalIdle /\ RuleIdle

Next ==
    \/ Quiet /\ RunEvolution(MaxRequests)
    \/ \E d \in Docs \cup {"unknown"} : Quiet /\ EvolveDocument(MaxRequests, d)
    \/ \E r \in Reqs, queryOk \in BOOLEAN : QueryFeedbacks(r, queryOk)
    \/ \E r \in Reqs : ReadDocumentRow(r)
    \/ \E r \in Reqs, driveOk \in BOOLEAN : GetDriveDocument(r, driveOk)
    \/ \E r \in Reqs : ReadTargetDocument(r)
    \/ \E r \in Reqs : ReadTargetFeedbacks(r)
    \/ \E r \in Reqs, driveOk \in BOOLEAN : GetTargetDriveDocument(r, driveOk)
    \/ \E r \in Reqs, succeeded \in SUBSET (1..Len(MutationTypes)) :
           GenerateMutations(r, succeeded)
    \/ \E r \in Reqs, goodOk \in BOOLEAN : PrepareSampleQuestions(r, goodOk)
    \/ \E r \in Reqs :
           \E outcome \in [1..Len(wf[r].job.candidates) ->
                              EvaluationOutcomes(wf[r].sampleQuestions)] :
               EvaluateCandidates(r, outcome)
    \/ \E r \in Reqs, outcome \in StoreOutcomes : UpdateDocument(r, outcome)
    \/ \E r \in Reqs, outcome \in StoreOutcomes : MarkFeedbacksProcessed(r, outcome)
    \/ \E r \in Reqs, outcome \in StoreOutcomes : RecordEvolutionHistory(r, outcome)
    \/ \E r \in Reqs : ProcessDocumentThrows(r)
    \/ \E r \in Reqs : ReturnJob(r)

Spec == Init /\ [][Next]_vars

\* The completion calls that succeed where several requests follow one
\* another: none, the first, the first two.
RerunSucceeded == {{}, {1}, {1, 2}}

\* Several evolution requests, one after the other.
RerunInit ==
    /\ config \in {c \in Configs : c.minWinMargin = DefaultMinWinMargin}
    /\ \E nBad \in 0..MaxBad, nBad2 \in 0..MaxBadOther :
           feedbackLogs = RowsOf("d1", 0, nBad) \o RowsOf("d2", 0, nBad2)
    /\ documents = [d \in Docs |-> [generation |-> 1]]
    /\ history = <<>>
    /\ wf = [r \in Reqs |-> IdleWorkflow]
    /\ requests = 0
    /\ LedgerIdle /\ SelIdle /\ EvalIdle /\ RuleIdle

RerunNext ==
    \/ Quiet /\ RunEvolution(MaxReruns)
    \/ \E d \in Docs \cup {"unknown"} : Quiet /\ EvolveDocument(MaxReruns, d)
    \/ \E r \in Reqs, queryOk \in BOOLEAN : QueryFeedbacks(r, queryOk)
    \/ \E r \in Reqs : ReadDocumentRow(r)
    \/ \E r \in Reqs, driveOk \in BOOLEAN : GetDriveDocument(r, driveOk)
    \/ \E r \in Reqs : ReadTargetDocument(r)
    \/ \E r \in Reqs : ReadTargetFeedbacks(r)
    \/ \E r \in Reqs, driveOk \in BOOLEAN : GetTargetDriveDocument(r, driveOk)
    \/ \E r \in Reqs, succeeded \in RerunSucceeded :
           GenerateMutations(r, succeeded)
    \/ \E r \in Reqs, goodOk \in BOOLEAN : PrepareSampleQuestions(r, goodOk)
    \/ \E r \in Reqs :
           \E outcome \in [1..Len(wf[r].job.candidates) ->
                              BatchOutcomes(wf[r].sampleQuestions)] :
               EvaluateCandidates(r, outcome)
    \/ \E r \in Reqs, outcome \in StoreOutcomes : UpdateDocument(r, outcome)
    \/ \E r \in Reqs, outcome \in StoreOutcomes : MarkFeedbacksProcessed(r, outcome)
    \/ \E r \in Reqs, outcome \in StoreOutcomes : RecordEvolutionHistory(r, outcome)
    \/ \E r \in Reqs : ProcessDocumentThrows(r)
    \/ \E r \in Reqs : ReturnJob(r)

SpecRerun == RerunInit /\ [][RerunNext]_vars

\* One batch request over two documents.
BatchInit ==
    /\ config \in {c \in Configs : c.minWinMargin = DefaultMinWinMargin}
    /\ \E nBad \in 0..MaxBad, nBad2 \in 0..MaxBad :
           feedbackLogs = RowsOf("d1", 0, nBad) \o RowsOf("d2", 0, nBad2)
    /\ documents = [d \in Docs |-> [generation |-> 1]]
    /\ history = <<>>
    /\ wf = [r \in Reqs |-> IdleWorkflow]
    /\ requests = 0
    /\ LedgerIdle /\ SelIdle /\ EvalIdle /\ RuleIdle

BatchNext ==
    \/ Quiet /\ RunEvolution(MaxRequests)
    \/ \E r \in Reqs, queryOk \in BOOLEAN : QueryFeedbacks(r, queryOk)
    \/ \E r \in Reqs : ReadDocumentRow(r)
    \/ \E r \in Reqs, driveOk \in BOOLEAN : GetDriveDocument(r, driveOk)
    \/ \E r \in Reqs, succeeded \in SUBSET (1..Len(MutationTypes)) :
           GenerateMutations(r, succeeded)
    \/ \E r \in Reqs, goodOk \in BOOLEAN : PrepareSampleQuestions(r, goodOk)
    \/ \E r \in Reqs :
           \E outcome \in [1..Len(wf[r].job.candidates) ->
                              BatchOutcomes(wf[r].sampleQuestions)] :
               EvaluateCandidates(r, outcome)
    \/ \E r \in Reqs, outcome \in StoreOutcomes : UpdateDocument(r, outcome)
    \/ \E r \in Reqs, outcome \in StoreOutcomes : MarkFeedbacksProcessed(r, outcome)
    \/ \E r \in Reqs, outcome \in StoreOutcomes : RecordEvolutionHistory(r, outcome)
    \/ \E r \in Reqs : ProcessDocumentThrows(r)
    \/ \E r \in Reqs : ReturnJob(r)

SpecBatch == BatchInit /\ [][BatchNext]_vars

\* Evolution requests served at the same time: a request may arrive while
\* others are in flight.  The store calls succeed, one candidate is generated
\* for each job, and it wins every comparison or none.
RunsOutcomes(k) == {0, k}

RunsInit ==
    /\ config = [DEFAULT_EVOLUTION_CONFIG EXCEPT !.autoUpdate = TRUE]
    /\ \E nBad2 \in {0, MaxBad} :
           feedbackLogs = RowsOf("d1", 0, MaxBad) \o RowsOf("d2", 0, nBad2)
    /\ documents = [d \in Docs |-> [generation |-> 1]]
    /\ history = <<>>
    /\ wf = [r \in Reqs |-> IdleWorkflow]
    /\ requests = 0
    /\ LedgerIdle /\ SelIdle /\ EvalIdle /\ RuleIdle

RunsNext ==
    \/ RunEvolution(MaxRuns)
    \/ EvolveDocument(MaxRuns, "d1")
    \/ \E r \in Reqs : QueryFeedbacks(r, TRUE)
    \/ \E r \in Reqs : ReadDocumentRow(r)
    \/ \E r \in Reqs : GetDriveDocument(r, TRUE)
    \/ \E r \in Reqs : ReadTargetDocument(r)
    \/ \E r \in Reqs : ReadTargetFeedbacks(r)
    \/ \E r \in Reqs : GetTargetDriveDocument(r, TRUE)
    \/ \E r \in Reqs : GenerateMutations(r, {1})
    \/ \E r \in Reqs : PrepareSampleQuestions(r, TRUE)
    \/ \E r \in Reqs :
           \E outcome \in [1..Len(wf[r].job.candidates) ->
                              RunsOutcomes(wf[r].sampleQuestions)] :
               EvaluateCandidates(r, outcome)
    \/ \E r \in Reqs : UpdateDocument(r, "ok")
    \/ \E r \in Reqs : MarkFeedbacksProcessed(r, "ok")
    \/ \E r \in Reqs : RecordEvolutionHistory(r, "ok")
    \/ \E r \in Reqs : ReturnJob(r)

SpecRuns == RunsInit /\ [][RunsNext]_vars

----------------------------------------------------------------------------
(* Document evolution properties *)

\* The trigger rows of the current job of a request are all marked processed.
TriggerProcessed(r) ==
    \A n \in DOMAIN wf[r].job.triggerFeedbackIds :
        feedbackLogs[wf[r].job.triggerFeedbackIds[n]].processed

\* Scenario A: three trigger rows, three candidates, candidate i evaluated at
\* win rate 0.8 and the others at 0.5 or less.
ScenarioA(r, i) ==
    /\ Len(wf[r].job.triggerFeedbackIds) = 3
    /\ Len(wf[r].job.candidates) = 3
    /\ Len(wf[r].job.evaluationResults) = 3
    /\ wf[r].job.evaluationResults[i].winRate = 80
    /\ \A j \in 1..3 : j # i => wf[r].job.evaluationResults[j].winRate <= 50

\* C1: under the default configuration a Scenario A job ends completed with
\* the 0.8 candidate as winner, the document's generation one above what it
\* was, and its three trigger rows processed.
C1_ScenarioADefault ==
    \A r \in Reqs, i \in 1..3 :
        (config = DEFAULT_EVOLUTION_CONFIG /\ wf[r].pc = "ended" /\ ScenarioA(r, i)) =>
            /\ wf[r].job.status = "completed"
            /\ wf[r].job.winnerCandidateId = wf[r].job.candidates[i].id
            /\ documents[wf[r].job.documentId].generation = wf[r].target.currentGeneration + 1
            /\ TriggerProcessed(r)

\* No evaluation result of the current job reaches 0.5 + minWinMargin.
NoneReachesThreshold(r) ==
    \A i \in DOMAIN wf[r].job.evaluationResults :
        wf[r].job.evaluationResults[i].winRate < 50 + config.minWinMargin

\* C2: whenever none of the candidates of a job reaches 0.5 + minWinMargin,
\* the job ends completed, never failed, with no winner id, the document's
\* generation as it was and its trigger rows processed.
C2_NoWinnerCompletes ==
    \A r \in Reqs :
        (wf[r].pc = "ended" /\ NoneReachesThreshold(r)) =>
            /\ wf[r].job.status = "completed"
            /\ wf[r].job.winnerCandidateId = "none"
            /\ documents[wf[r].job.documentId].generation = wf[r].target.currentGeneration
            /\ TriggerProcessed(r)

\* The unprocessed BAD rows of a document.
UnprocessedBad(d) ==
    {i \in DOMAIN feedbackLogs :
        /\ feedbackLogs[i].document_id = d
        /\ feedbackLogs[i].rating = "BAD"
        /\ ~feedbackLogs[i].processed}

\* C12: evolution run for a document with fewer than badFeedbackThreshold
\* unprocessed BAD rows, by the batch run or by a run targeted at it, produces
\* no job: a job that has just begun has a document with at least that many.
C12_BelowThresholdNoJob ==
    \A r \in Reqs :
        wf[r].pc = "generate" =>
            Cardinality(UnprocessedBad(wf[r].target.documentId)) >= config.badFeedbackThreshold

\* C13: no job takes as trigger a feedback row an earlier job has consumed:
\* the trigger rows of a job that has just begun are all unprocessed.
C13_ConsumedRowsNotReused ==
    \A r \in Reqs :
        wf[r].pc = "generate" =>
            \A n \in DOMAIN wf[r].job.triggerFeedbackIds :
                ~feedbackLogs[wf[r].job.triggerFeedbackIds[n]].processed

\* C20: a job that ended as failed left the document's generation as it was
\* when the job started.
C20_FailedJobWritesNothing ==
    \A r \in Reqs :
        (wf[r].pc = "ended" /\ wf[r].job.status = "failed") =>
            documents[wf[r].target.documentId].generation = wf[r].target.currentGeneration

\* C21: the list a batch run returns has exactly one job for each eligible
\* document, each document whose unprocessed BAD rows reach the threshold, in
\* their order; each job is completed or failed, and a failed one carries its
\* error.  A run that answers with an error instead of a list is left aside.
C21_BatchIsolation ==
    [][\A r \in Reqs :
           (/\ wf[r].mode = "batch"
            /\ wf[r].pc # "returned"
            /\ wf'[r].pc = "returned"
            /\ wf'[r].response.status = "ok") =>
               /\ Len(wf'[r].response.jobs) = Len(wf[r].eligible)
               /\ \A n \in DOMAIN wf'[r].response.jobs :
                      /\ wf'[r].response.jobs[n].documentId = wf[r].eligible[n]
                      /\ wf'[r].response.jobs[n].status \in {"completed", "failed"}
                      /\ wf'[r].response.jobs[n].status = "failed" =>
                             wf'[r].response.jobs[n].error # "none"]_vars

\* Number of jobs over all requests that adopted a winner for document d.
RECURSIVE CountOfDoc(_, _)
CountOfDoc(seq, d) ==
    IF seq = <<>> THEN 0
    ELSE (IF Head(seq) = d THEN 1 ELSE 0) + CountOfDoc(Tail(seq), d)

RECURSIVE AdoptionsFor(_, _)
AdoptionsFor(rs, d) ==
    IF rs = {} THEN 0
    ELSE LET r == CHOOSE x \in rs : TRUE
         IN CountOfDoc(wf[r].adopted, d) + AdoptionsFor(rs \ {r}, d)

\* C22: the stored generation of a document is its first generation plus the
\* number of jobs that adopted a winner for it, however the requests
\* interleave.
C22_GenerationCountsAdoptions ==
    \A d \in Docs : documents[d].generation = 1 + AdoptionsFor(Reqs, d)

\* C23: once the selection step of a job has run, the job holds exactly one
\* evaluation result for each generated candidate, in the candidates' order,
\* those whose evaluation threw included.
C23_SelectionAfterAllResults ==
    \A r \in Reqs :
        (wf[r].pc \in {"update", "mark", "record"}) =>
            /\ Len(wf[r].job.evaluationResults) = Len(wf[r].job.candidates)
            /\ \A i \in DOMAIN wf[r].job.candidates :
                   wf[r].job.evaluationResults[i].candidateId = wf[r].job.candidates[i].id

\* Selection has run and found a winner in a job where the evaluation of
\* another candidate threw.
C23_Witness ==
    \E r \in Reqs :
        /\ wf[r].pc \in {"update", "mark"}
        /\ wf[r].job.winnerCandidateId # "none"
        /\ \E i \in DOMAIN wf[r].job.candidates :
               /\ i \in DOMAIN wf[r].job.evaluationResults
               /\ wf[r].job.evaluationResults[i] = FailedEvaluation(wf[r].job.candidates[i].id)

\* C29: a completed job whose store calls all took effect has appended one
\* history record for each candidate it evaluated.
C29_OneRecordPerCandidate ==
    \A r \in Reqs :
        (wf[r].pc = "ended" /\ wf[r].job.status = "completed" /\ ~wf[r].faulted) =>
            Cardinality({h \in DOMAIN history :
                            /\ history[h].document_id = wf[r].job.documentId
                            /\ history[h].trigger_feedback_ids = wf[r].job.triggerFeedbackIds})
                = Len(wf[r].job.evaluationResults)

\* C30 as stated: a job that ended as failed has every one of its trigger
\* feedback rows marked processed.
C30_FailedJobFeedbackProcessed ==
    \A r \in Reqs :
        (wf[r].pc = "ended" /\ wf[r].job.status = "failed") =>
            \A n \in DOMAIN wf[r].job.triggerFeedbackIds :
                feedbackLogs[wf[r].job.triggerFeedbackIds[n]].processed

\* C30 amended: with requests served one at a time, the step that fails a job
\* changes no feedback row, and a job of a batch run that fails before
\* markFeedbacksProcessed has returned leaves every one of its trigger rows
\* unprocessed.
C30_FailedJobLeavesFeedback ==
    [][\A r \in Reqs :
           (wf[r].pc # "ended" /\ wf'[r].pc = "ended" /\ wf'[r].job.status = "failed") =>
               /\ feedbackLogs' = feedbackLogs
               /\ (wf[r].mode = "batch" /\ wf[r].pc \in {"prepare", "update", "mark"}) =>
                      \A n \in DOMAIN wf[r].target.feedbacks :
                          ~feedbackLogs'[wf[r].target.feedbacks[n]].processed]_vars

\* A job of a batch run ended as failed with its three trigger rows still
\* unprocessed.
C30_Witness ==
    \E r \in Reqs :
        /\ wf[r].pc = "ended" /\ wf[r].mode = "batch" /\ wf[r].job.status = "failed"
        /\ Len(wf[r].job.triggerFeedbackIds) = 3
        /\ \A n \in DOMAIN wf[r].job.triggerFeedbackIds :
               ~feedbackLogs[wf[r].job.triggerFeedbackIds[n]].processed

----------------------------------------------------------------------------
(* Rule evolution properties *)

\* C15: a job adopts at most one candidate: at most one rule is persisted for
\* the results of one job.
C15_AtMostOneAdopted ==
    \A r \in Reqs : Len(rw[r].adoptedRules) <= 1

\* The moves of a job's status the lifecycle allows.
LifecycleMoves ==
    {<<"pending", "generating">>, <<"generating", "evaluating">>,
     <<"evaluating", "updating">>, <<"evaluating", "completed">>,
     <<"updating", "completed">>}
    \cup {<<st, "failed">> : st \in {"pending", "generating", "evaluating", "updating"}}

\* C18: while a job is being processed its status changes only by a move of
\* the lifecycle pending -> generating -> evaluating -> [updating] ->
\* completed, or from a non-terminal status to failed.
C18_StatusFollowsLifecycle ==
    [][\A r \in Reqs :
           (rw[r].pc \notin {"idle", "ended", "returned"}
                /\ rw'[r].job.status # rw[r].job.status)
               => <<rw[r].job.status, rw'[r].job.status>> \in LifecycleMoves]_vars

\* C19: a completed job has every one of its trigger feedback rows processed.
C19_CompletedJobProcessed ==
    \A r \in Reqs :
        rw[r].job.status = "completed" =>
            \A n \in DOMAIN rw[r].job.trigger_feedback_ids :
                feedbackLogs[rw[r].job.trigger_feedback_ids[n]].processed

----------------------------------------------------------------------------
(* Rule lookup properties *)

\* C16: getApplicableRules returns exactly the enabled rules of the document
\* whose trigger_pattern is absent or matches the query, each once, in
\* non-increasing score order; a failed read returns the empty list.
C16_ApplicableRules ==
    lookup.called =>
        IF lookup.outcome # "ok" THEN lookup.rules = <<>>
        ELSE /\ {lookup.rules[n] : n \in DOMAIN lookup.rules}
                    = {i \in DOMAIN ruleRows :
                          /\ ruleRows[i].document_id = lookup.documentId
                          /\ ruleRows[i].enabled
                          /\ \/ ruleRows[i].trigger_pattern = NoPattern
                             \/ TriggerApplies(ruleRows[i].trigger_pattern, lookup.query)}
             /\ \A m, n \in DOMAIN lookup.rules :
                    m < n => /\ lookup.rules[m] # lookup.rules[n]
                             /\ ruleRows[lookup.rules[m]].score
                                    >= ruleRows[lookup.rules[n]].score

\* A lookup that returned two rules of different score while the document has
\* a disabled rule and a rule whose pattern does not match the query.
C16_Witness ==
    /\ lookup.called /\ lookup.outcome = "ok"
    /\ Len(lookup.rules) = 2
    /\ ruleRows[lookup.rules[1]].score > ruleRows[lookup.rules[2]].score
    /\ \E i \in DOMAIN ruleRows :
           /\ ruleRows[i].document_id = lookup.documentId
           /\ \/ ~ruleRows[i].enabled
              \/ ~TriggerApplies(ruleRows[i].trigger_pattern, lookup.query)

----------------------------------------------------------------------------
(* Candidate generation properties *)

\* The place of a mutation type in the menu.
MenuIndex(type) == CHOOSE i \in DOMAIN MutationTypes : MutationTypes[i] = type

\* C25: a prompt whose first completion call fails with a rate limit or a
\* timeout and whose next call would succeed still yields its candidate.
C25_TransientFailureRetried ==
    gen.pc = "done" =>
        \A i \in DOMAIN MutationTypes :
            (gen.service[i][1] \in {"RateLimited", "Timeout"} /\ gen.service[i][2] = "ok")
                => \E n \in DOMAIN gen.candidates :
                       gen.candidates[n].mutationType = MutationTypes[i]

\* The job of request r has gone on from a call of generateMutations that
\* returned no candidate.
WithoutCandidates(r) ==
    /\ gen.pc = "done" /\ gen.candidates = <<>>
    /\ wf[r].pc \in {"prepare", "evaluate", "update", "mark", "record", "ended"}

\* C26: generateMutations returns without raising, with exactly one
\* candidate for each prompt whose completion call succeeded, in menu order,
\* and an empty list when every call failed; the job goes on with the list
\* returned.  A job that goes on with the empty list is not failed by it: it
\* is evaluated and takes the branch without winner, it never updates the
\* document, and it ends completed without winner id and with the
\* generation as it was, unless a later call of processDocument raises and
\* runEvolution reports the job failed.
C26_OneCandidatePerSuccess ==
    /\ [](gen.pc = "done" =>
              /\ ~gen.raised
              /\ \A i \in DOMAIN MutationTypes :
                     Cardinality({n \in DOMAIN gen.candidates :
                                     gen.candidates[n].mutationType = MutationTypes[i]})
                         = (IF gen.service[i][1] = "ok" THEN 1 ELSE 0)
              /\ \A m, n \in DOMAIN gen.candidates :
                     m < n => MenuIndex(gen.candidates[m].mutationType)
                                  < MenuIndex(gen.candidates[n].mutationType)
              /\ (\A i \in DOMAIN MutationTypes : gen.service[i][1] # "ok")
                     => gen.candidates = <<>>)
    /\ [](\A r \in Reqs :
              /\ (wf[r].pc \in {"prepare", "evaluate", "update", "mark", "record"}
                      \/ (wf[r].pc = "ended" /\ wf[r].job.status = "completed"))
                     => wf[r].job.candidates = gen.candidates
              /\ WithoutCandidates(r) =>
                     /\ wf[r].pc # "update"
                     /\ wf[r].job.winnerCandidateId = "none"
                     /\ wf[r].job.status \in {"evaluating", "completed", "failed"}
                     /\ documents[wf[r].target.documentId].generation
                            = wf[r].target.currentGeneration)
    /\ [][\A r \in Reqs :
              /\ (wf[r].pc = "generate" /\ wf'[r].pc # "generate") =>
                     (wf'[r].pc = "prepare" /\ wf'[r].job.status = "evaluating")
              /\ (WithoutCandidates(r) /\ wf[r].pc = "evaluate" /\ wf'[r] # wf[r]) =>
                     (wf'[r].pc = "mark" /\ wf'[r].job.evaluationResults = <<>>)
              /\ (WithoutCandidates(r) /\ wf'[r].job.status = "failed"
                      /\ wf[r].job.status # "failed") => ProcessDocumentThrows(r)
              /\ (WithoutCandidates(r) /\ wf[r].pc = "record" /\ wf'[r] # wf[r]
                      /\ ~ProcessDocumentThrows(r)) =>
                     (wf'[r].pc = "ended" /\ wf'[r].job.status = "completed")]_vars

\* Every completion call failed, and the job has ended completed without
\* winner and with its trigger rows processed.
C26_Witness ==
    \E r \in Reqs :
        /\ gen.pc = "done"
        /\ \A i \in DOMAIN MutationTypes : gen.service[i][1] # "ok"
        /\ gen.candidates = <<>>
        /\ wf[r].pc = "ended"
        /\ wf[r].job.status = "completed"
        /\ wf[r].job.candidates = <<>>
        /\ wf[r].job.winnerCandidateId = "none"
        /\ documents[wf[r].target.documentId].generation = wf[r].target.currentGeneration
        /\ TriggerProcessed(r)

----------------------------------------------------------------------------
(* Weakness analysis properties *)

\* C27: a question whose analysis calls succeed is reported as a weakness if
\* and only if its without-rule average is below 3.5 or its with-rule average
\* exceeds the without-rule average by less than the configured delta.
C27_WeaknessClassification ==
    weak.pc \in {"generate", "history", "done"} =>
        \A i \in DOMAIN weak.results :
            (weak.replies[i].first # NoWeakness /\ weak.replies[i].second # NoWeakness) =>
                ((\E n \in DOMAIN weak.returned :
                      \E k \in DOMAIN weak.returned[n].affected_questions :
                          weak.returned[n].affected_questions[k] = i)
                 <=> \/ CalculateAverageScore(weak.results[i].without_rule) < QualityFloor
                     \/ CalculateAverageScore(weak.results[i].with_rule)
                            - CalculateAverageScore(weak.results[i].without_rule)
                                < weak.config.weaknessThreshold)

\* C28: the returned list has no two entries of the same type and suggested
\* rule type, every question of a found weakness is among the affected
\* questions of the entry of its type and suggested rule type, and no entry
\* has more than one rule candidate.
C28_WeaknessesConsolidated ==
    weak.pc \in {"generate", "history", "done"} =>
        /\ \A m, n \in DOMAIN weak.returned :
               (/\ weak.returned[m].type = weak.returned[n].type
                /\ weak.returned[m].suggested_rule_type = weak.returned[n].suggested_rule_type)
                   => m = n
        /\ \A w \in DOMAIN weak.weaknesses :
               \E n \in DOMAIN weak.returned :
                   /\ weak.returned[n].type = weak.weaknesses[w].type
                   /\ weak.returned[n].suggested_rule_type
                          = weak.weaknesses[w].suggested_rule_type
                   /\ \E k \in DOMAIN weak.returned[n].affected_questions :
                          weak.returned[n].affected_questions[k]
                              = weak.weaknesses[w].affected_questions[1]
        /\ \A n \in DOMAIN weak.returned :
               Cardinality({c \in DOMAIN weak.candidates : weak.candidates[c].weakness = n}) <= 1

\* Two questions whose weaknesses were merged into one entry, for which a
\* candidate was generated.
C28_Witness ==
    /\ weak.pc = "generate"
    /\ Len(weak.weaknesses) >= 2
    /\ Len(weak.returned) = 1
    /\ \E k1, k2 \in DOMAIN weak.returned[1].affected_questions :
           weak.returned[1].affected_questions[k1] # weak.returned[1].affected_questions[k2]
    /\ Len(weak.candidates) = 1

----------------------------------------------------------------------------
(* Self-evolution properties *)

\* C17: a candidate of self-evolution gets a rule exactly when its improvement
\* rate, (average with it - average without it) / average without it, is at
\* least the minImprovementRate of the job's config; a rule is not created
\* below the minimum, and is created at or above it whenever the store
\* accepts the insert.  The averages are the sums of the lists over four
\* times their lengths.
C17_AdoptedIffImprovement ==
    /\ \A i \in DOMAIN selfEvo.candidates :
           LET c == selfEvo.candidates[i]
               sumBefore == SumSeq(c.resultsBefore) * Len(c.resultsAfter)
               sumAfter == SumSeq(c.resultsAfter) * Len(c.resultsBefore)
               rateReaches == /\ sumBefore > 0 /\ sumAfter > 0
                              /\ 100 * (sumAfter - sumBefore)
                                     >= selfEvo.config.minImprovementRate * sumBefore
           IN /\ c.adopted => rateReaches
              /\ (rateReaches /\ c.accepted) => c.adopted
    /\ Len(ruleRows) = Cardinality({i \in DOMAIN selfEvo.candidates :
                                       selfEvo.candidates[i].adopted})

----------------------------------------------------------------------------
(* Selection properties *)

MaxWinRate(results) ==
    CHOOSE w \in {results[i].winRate : i \in 1..Len(results)} :
        \A i \in 1..Len(results) : results[i].winRate <= w

InResults(results, x) == \E i \in 1..Len(results) : results[i] = x

\* C3: selectWinner returns a winner exactly when the largest win rate of the
\* results reaches 0.5 + minWinMargin; the winner it returns is one of the
\* results and has that largest win rate; an empty list gives no winner.
C3_WinnerIffThreshold ==
    selJobs > 0 =>
        \A i \in 1..2 :
            /\ (selWinners[i] # NoWinner) <=>
                   (selResults # <<>> /\ MaxWinRate(selResults) >= 50 + selMargins[i])
            /\ selWinners[i] # NoWinner =>
                   /\ InResults(selResults, selWinners[i])
                   /\ selWinners[i].winRate = MaxWinRate(selResults)
            /\ selResults = <<>> => selWinners[i] = NoWinner

\* C5: for a fixed fixture of jobs and margins m1 <= m2, no more jobs adopt a
\* winner under m2 than under m1.
C5_GatingMonotone == selMargins[1] <= selMargins[2] => adoptCounts[2] <= adoptCounts[1]

C5_Witness ==
    /\ selJobs = MaxJobs
    /\ selMargins[1] < selMargins[2]
    /\ adoptCounts[1] = 2
    /\ adoptCounts[2] = 1

\* C14: a selected winner has the highest win rate, and among the results
\* sharing that win rate it has the highest mean score, whatever the order of
\* the results.
C14_TieBreakByMeanScore ==
    selJobs > 0 =>
        \A i \in 1..2 :
            selWinners[i] # NoWinner =>
                /\ selWinners[i].winRate = MaxWinRate(selResults)
                /\ \A n \in 1..Len(selResults) :
                       selResults[n].winRate = selWinners[i].winRate =>
                           selResults[n].score <= selWinners[i].score

----------------------------------------------------------------------------
(* Evaluation properties *)

\* The denominator of the win rate as counted so far.
Denominator ==
    IF ev.engine = "document"
    THEN ev.totalWins2 \div 2 + ev.totalLosses + ev.totalTies
    ELSE ev.totalComparisons

\* C4: in both evaluators the win rate lies between 0 and 1, and a TIE verdict
\* counts once in its denominator and not at all in its numerator: the
\* numerator is the number of B verdicts.
C4_WinRateBoundsTiesNotWins ==
    /\ 0 <= ev.winRateNum /\ ev.winRateNum <= ev.winRateDen
    /\ DGeq(ev.winRate, DZero) /\ DGeq(DInt(1), ev.winRate)
    /\ ev.totalWins2 = 2 * ev.seen["B"]
    /\ Denominator >= ev.seen["A"] + ev.seen["B"] + ev.seen["TIE"]

\* C24: in both evaluators a verdict that cannot be parsed is counted as a
\* comparison that ended TIE with scores (3,3,3): it is part of the win rate's
\* denominator and adds 3 to each of the candidate side's score sums.
C24_UnparseableCountsAsTie ==
    /\ Denominator = ev.seen["A"] + ev.seen["B"] + ev.seen["TIE"] + ev.seen["unparseable"]
    /\ \A i \in 1..3 : ev.scores[i] >= 3 * ev.seen["unparseable"]

----------------------------------------------------------------------------
(* Ledger properties *)

RatingsOf(log) == [i \in 1..Len(log) |-> log[i].rating]
CountOf(seq, x) == Cardinality({i \in 1..Len(seq) : seq[i] = x})

\* The score a rule had before its first ledger update.
InitialScore(r) == IF eventLog[r] = <<>> THEN rules[r].score ELSE eventLog[r][1].before

\* The updates of a rule were applied one after another: each found the score
\* the one before had written, and the rule holds what the last one wrote.
AppliedInTurn(r) ==
    /\ \A i \in 2..Len(eventLog[r]) : eventLog[r][i].before = eventLog[r][i - 1].after
    /\ eventLog[r] # <<>> => rules[r].score = eventLog[r][Len(eventLog[r])].after

\* A BAD update found the score below the penalty, so the floor cut it short.
BadClamped(r) ==
    \E i \in 1..Len(eventLog[r]) :
        eventLog[r][i].rating = "BAD" /\ eventLog[r][i].before < SCORE_DECREASE_ON_BAD

Balanced(r) ==
    /\ rules[r].exists
    /\ eventLog[r] # <<>>
    /\ CountOf(RatingsOf(eventLog[r]), "GOOD") = CountOf(RatingsOf(eventLog[r]), "BAD")

\* C6 as stated: after N GOOD and M BAD events with N = M, applied in any
\* order one after another, a rule's score is at most its initial score.
C6_BalancedNeverGains ==
    \A r \in RuleIds :
        (Balanced(r) /\ AppliedInTurn(r)) => rules[r].score <= InitialScore(r)

\* C6 amended: after as many GOOD as BAD events, applied in any order one
\* after another, a rule's score is at most its initial score provided no BAD
\* update was cut short by the 0.0 floor.
C6_BalancedNeverGainsUnclamped ==
    \A r \in RuleIds :
        (Balanced(r) /\ AppliedInTurn(r) /\ ~BadClamped(r)) =>
            rules[r].score <= InitialScore(r)

C6_Witness ==
    \E r \in RuleIds :
        /\ Balanced(r) /\ AppliedInTurn(r) /\ ~BadClamped(r)
        /\ RatingsOf(eventLog[r]) = <<"GOOD", "BAD">>
        /\ rules[r].score < InitialScore(r)

\* Replaying a sequence of ratings from a score, one update after the other.
RECURSIVE Replay(_, _)
Replay(score, ratings) ==
    IF ratings = <<>> THEN score
    ELSE Replay(NewScore(score, Head(ratings)), Tail(ratings))

\* No update of the replay reaches past 0.0 or 1.0.
RECURSIVE ClampFree(_, _)
ClampFree(score, ratings) ==
    IF ratings = <<>> THEN TRUE
    ELSE LET raw == IF Head(ratings) = "GOOD"
                    THEN score + SCORE_INCREASE_ON_GOOD
                    ELSE score - SCORE_DECREASE_ON_BAD
         IN /\ raw >= MIN_SCORE
            /\ raw <= MAX_SCORE
            /\ ClampFree(raw, Tail(ratings))

\* Every order of the events a rule has received.
Reorderings(ratings) ==
    {q \in [1..Len(ratings) -> Ratings] :
        \A x \in Ratings : CountOf(q, x) = CountOf(ratings, x)}

\* C7 as stated: whatever the order in which the events a rule received are
\* applied one after another, the final score is the one the ledger holds
\* after applying them in turn.
C7_AnyOrderSameScore ==
    \A r \in RuleIds :
        (rules[r].exists /\ AppliedInTurn(r)) =>
            \A q \in Reorderings(RatingsOf(eventLog[r])) :
                Replay(InitialScore(r), q) = rules[r].score

\* C7 amended: every order of a rule's events in which no update is clamped at
\* 0.0 or 1.0 yields the score the ledger holds, when the ledger applied them
\* one after another and was not clamped either.
C7_UnclampedOrdersSameScore ==
    \A r \in RuleIds :
        (/\ rules[r].exists
         /\ AppliedInTurn(r)
         /\ ClampFree(InitialScore(r), RatingsOf(eventLog[r]))) =>
            \A q \in Reorderings(RatingsOf(eventLog[r])) :
                ClampFree(InitialScore(r), q) =>
                    Replay(InitialScore(r), q) = rules[r].score

C7_Witness ==
    \E r \in RuleIds :
        /\ rules[r].exists
        /\ AppliedInTurn(r)
        /\ RatingsOf(eventLog[r]) = <<"GOOD", "GOOD", "BAD">>
        /\ ClampFree(InitialScore(r), RatingsOf(eventLog[r]))
        /\ ClampFree(InitialScore(r), <<"BAD", "GOOD", "GOOD">>)

\* C11: when the events of a rule were applied one after another and none was
\* clamped at 0.0 or 1.0, its score is initial + 0.05 * g - 0.10 * b for its g
\* GOOD and b BAD events.
C11_ClosedFormScore ==
    \A r \in RuleIds :
        (/\ rules[r].exists
         /\ AppliedInTurn(r)
         /\ ClampFree(InitialScore(r), RatingsOf(eventLog[r]))) =>
            rules[r].score =
                InitialScore(r)
                + SCORE_INCREASE_ON_GOOD * CountOf(RatingsOf(eventLog[r]), "GOOD")
                - SCORE_DECREASE_ON_BAD * CountOf(RatingsOf(eventLog[r]), "BAD")

\* Scenario C: a rule at 0.5 after GOOD, GOOD, BAD is at 0.50.
C11_Witness ==
    \E r \in RuleIds :
        /\ rules[r].exists
        /\ AppliedInTurn(r)
        /\ InitialScore(r) = 50
        /\ eventLog[r] # <<>>
        /\ RatingsOf(eventLog[r]) = <<"GOOD", "GOOD", "BAD">>
        /\ rules[r].score = 50

\* C8: feedback recorded more than once for a message adjusts each rule
\* attributed to that message only once.
C8_OneAdjustmentPerMessage ==
    \A r \in RuleIds, m \in MessageIds :
        Cardinality({i \in 1..Len(eventLog[r]) : eventLog[r][i].message = m}) <= 1

\* C9: when the concurrent updateRuleScores calls have all finished, every
\* rule's score is the result of applying the updates it received one after
\* the other, in some order.
C9_NoLostUpdate ==
    (\A p \in ProcIds : procs[p].pc = "idle") =>
        \A r \in RuleIds :
            rules[r].exists =>
                \E q \in Reorderings(RatingsOf(eventLog[r])) :
                    rules[r].score = Replay(InitialScore(r), q)

\* C10: every persisted rule has a score between 0.0 and 1.0, whether a
\* workflow set it when it adopted the rule or updateRuleScores has changed it
\* since.
C10_ScoreInRange ==
    \A r \in RuleIds : rules[r].exists => (MIN_SCORE <= rules[r].score /\ rules[r].score <= MAX_SCORE)

\* A rule self-evolution adopted above 0.5 whose score feedback has changed
\* since.
C10_Witness ==
    \E r \in RuleIds :
        /\ rules[r].exists
        /\ rules[r].origin = "self"
        /\ eventLog[r] # <<>>
        /\ eventLog[r][1].before > 50
        /\ rules[r].score # eventLog[r][1].before

====
